---- MODULE Spec2Model ----
(***************************************************************************)
(* Streaming response translators of copilot-api.                          *)
(*                                                                         *)
(* Response-API translator: src/src/routes/responses/stream-translation.ts *)
(* Anthropic translator:    src/src/routes/messages/stream-translation.ts  *)
(* Gemini translator:       src/src/routes/gemini/stream-translation.ts    *)
(*                                                                         *)
(* A translator is a function (chunk, mutable state) -> list of events.    *)
(* Each handler of the source is an operator on a context record           *)
(*   [state, events, rnd]                                                  *)
(* state  : the stream state the handler mutates,                          *)
(* events : the event list built so far for the current chunk,             *)
(* rnd    : the number of ids drawn from generateItemId so far (ids are    *)
(*          random 12-byte hex strings in the source; they are modelled as *)
(*          fresh, pairwise distinct names).                               *)
(* JavaScript null/undefined is the value null; an optional object is a    *)
(* sequence of length 0 or 1.                                              *)
(***************************************************************************)
EXTENDS Integers, Sequences, FiniteSets, TLC

\* Number of upstream chunks fed to a translator in one run.
MaxChunks == 4

\* Number of upstream events a stream loop takes in one run.
MaxEvents == 3

\* Number of keep-alive writes and of forwarded upstream events in one run
\* of the native passthrough.
MaxKeepAlives == 2
MaxForward == 2

\* Number of upstream chunks each of two concurrent connections receives.
MaxConnChunks == 2

\* Number of entries in the contents list of a Gemini request.
MaxContents == 3

null == "<null>"

\* JavaScript truthiness of an optional string: null, undefined and "" are falsy.
Truthy(v) == v # null /\ v # ""

VARIABLES
  route,      \* the endpoint serving the connection: "responses", "messages" or "gemini"
  chunks,     \* the upstream chunks consumed so far, in order
  events,     \* events returned by the translator for the last chunk
  sent,       \* every event returned so far, in the order written to the sink
  state,      \* ResponseAPIStreamState of the connection
  rnd,        \* ids drawn from generateItemId so far
  astate,     \* AnthropicStreamState of the connection
  gstate      \* GeminiStreamState of the connection

\* The stream loop of a translating handler (streamSSE callback).
VARIABLES
  raw,        \* the upstream events (rawEvent) the loop has taken, in order
  pending,    \* events of the current iteration not yet passed to stream.writeSSE
  sink,       \* the events stream.writeSSE has accepted, in order
  phase,      \* "streaming", "done" (the loop was left), "failed" (the callback threw)
  firstChunk, \* responses handler: no chunk has been parsed yet
  held,       \* responses handler: the first chunk while the two snapshots are written
  aborted     \* the client has disconnected

\* The native Response-API passthrough (handleNativeResponsesApi).
VARIABLES
  keepAliveActive,
  keepAliveTimer, \* null, "pending" (set and not yet fired) or "fired" (a stale handle)
  hasCompleted,
  npc,            \* "start", "loop", "returned" or "thrown"
  kaWrite,        \* the keep-alive stream.write promise: "none" or "inflight"
  kaWrites,       \* keep-alive writes initiated so far
  forwarded       \* upstream events taken by the passthrough loop so far

\* Two connections served at the same time.
VARIABLES
  conns,      \* connection -> its route, chunk history, stream state and event log
  ids         \* ids drawn from generateItemId by the process so far

\* A request answered without streaming.
VARIABLES
  request,    \* the payload received from the client
  upstream,   \* the payload handed to the upstream service for it
  completion, \* the whole completion upstream answered with
  reply       \* the body returned to the client

tvars == <<route, chunks, events, sent, state, rnd, astate, gstate>>
hvars == <<raw, pending, sink, phase, firstChunk, held>>
nvars == <<keepAliveActive, keepAliveTimer, hasCompleted, npc, kaWrite, kaWrites, forwarded>>
cvars == <<conns, ids>>
xvars == <<request, upstream, completion, reply>>
vars == <<tvars, hvars, aborted, nvars, cvars, xvars>>

(***************************************************************************)
(* Upstream chunks (ChatCompletionChunk)                                   *)
(***************************************************************************)
ToolCallDelta(index, id, name, arguments) ==
  [index |-> index, id |-> id, function |-> [name |-> name, arguments |-> arguments]]

Delta(reasoning_text, reasoning_opaque, content, tool_calls) ==
  [reasoning_text |-> reasoning_text, reasoning_opaque |-> reasoning_opaque,
   content |-> content, tool_calls |-> tool_calls]

Chunk(delta, finish_reason, usage) ==
  [id |-> "test-id", model |-> "gpt-4", created |-> 1234567890,
   choices |-> <<[index |-> 0, delta |-> delta, finish_reason |-> finish_reason]>>,
   usage |-> usage]

NoChoiceChunk(usage) ==
  [id |-> "test-id", model |-> "gpt-4", created |-> 1234567890,
   choices |-> <<>>, usage |-> usage]

Usage(prompt, cached, generated) ==
  [prompt_tokens |-> prompt, completion_tokens |-> generated,
   total_tokens |-> prompt + generated,
   prompt_tokens_details |-> [i \in 1..Len(cached) |-> [cached_tokens |-> cached[i]]]]

FinishReasons == {"stop", "length", "tool_calls", "content_filter"}

TextDelta(t) == Delta(null, null, t, <<>>)
ToolDelta(tcs) == Delta(null, null, null, tcs)
EmptyDelta == Delta(null, null, null, <<>>)

StartFrag(i) == ToolCallDelta(i, IF i = 0 THEN "call_0" ELSE "call_1", "get_weather", null)
StartArgsFrag(i) == ToolCallDelta(i, IF i = 0 THEN "call_0" ELSE "call_1", "test_tool", "{}")
ArgsFrag(i) == ToolCallDelta(i, null, null, "x")

NoOpFrag == ToolCallDelta(0, "call_9", null, null)

\* The chunks fed to the Response-API translator.
RespChunks ==
     { Chunk(TextDelta(t), null, <<>>) : t \in {"A", "B"} }
  \cup { Chunk(ToolDelta(<<f>>), null, <<>>) :
           f \in {StartFrag(0), StartFrag(1), StartArgsFrag(0), ArgsFrag(0)} }
  \cup { Chunk(ToolDelta(<<StartFrag(0), StartFrag(1)>>), null, <<>>),
         Chunk(Delta(null, null, "", <<NoOpFrag>>), null, <<>>) }
  \cup { Chunk(EmptyDelta, r, <<>>) : r \in FinishReasons }
  \cup { Chunk(TextDelta("B"), "stop", <<Usage(10, <<4>>, 5)>>),
         NoChoiceChunk(<<Usage(7, <<>>, 3)>>),
         NoChoiceChunk(<<>>) }

\* The chunks fed to the Anthropic translator.
AnthChunks ==
     { Chunk(Delta("T", null, null, <<>>), null, <<>>),
       Chunk(Delta(null, "S", null, <<>>), null, <<>>),
       Chunk(Delta("T", "S", "A", <<>>), null, <<>>),
       Chunk(TextDelta("A"), null, <<>>) }
  \cup { Chunk(ToolDelta(<<f>>), null, <<>>) :
           f \in {StartFrag(0), StartFrag(1), StartArgsFrag(0), ArgsFrag(0)} }
  \cup { Chunk(Delta(null, null, "", <<NoOpFrag>>), null, <<>>) }
  \cup { Chunk(EmptyDelta, r, <<>>) : r \in {"stop", "tool_calls", "length"} }
  \cup { Chunk(Delta("T", null, "A", <<StartArgsFrag(1)>>), "tool_calls", <<>>),
         Chunk(TextDelta("B"), "stop", <<Usage(10, <<4>>, 5)>>),
         NoChoiceChunk(<<Usage(7, <<>>, 3)>>) }

\* Argument fragments that together spell the JSON text {"a":1}.
OpenArgsFrag(i) == ToolCallDelta(i, "call_0", "get_weather", "{\"a\":")
CloseArgsFrag(i) == ToolCallDelta(i, null, null, "1}")

\* The chunks fed to the Gemini translator.
GeminiChunks ==
     { Chunk(TextDelta("A"), null, <<>>) }
  \cup { Chunk(ToolDelta(<<f>>), null, <<>>) :
           f \in {StartFrag(0), StartFrag(1), OpenArgsFrag(0), CloseArgsFrag(0)} }
  \cup { Chunk(Delta(null, null, "", <<NoOpFrag>>), null, <<>>) }
  \cup { Chunk(EmptyDelta, r, <<>>) : r \in FinishReasons }
  \cup { Chunk(TextDelta("B"), "stop", <<Usage(10, <<4>>, 5)>>),
         NoChoiceChunk(<<Usage(7, <<>>, 3)>>) }

\* The whole completions (ChatCompletionResponse) upstream answers a
\* non-streaming request with.
ToolCall(id, name, arguments) ==
  [id |-> id, type |-> "function", function |-> [name |-> name, arguments |-> arguments]]

Completion(content, tool_calls, finish_reason, usage) ==
  [id |-> "id", model |-> "m", created |-> 0,
   choices |-> <<[index |-> 0,
                  message |-> [role |-> "assistant", content |-> content,
                               tool_calls |-> tool_calls],
                  finish_reason |-> finish_reason]>>,
   usage |-> usage]

Completions ==
  { Completion(content, tool_calls, r, usage) :
      content \in {null, "hi"},
      tool_calls \in {<<>>, <<ToolCall("call_0", "get_weather", "{\"a\":1}")>>},
      r \in FinishReasons,
      usage \in {<<>>, <<Usage(10, <<4>>, 5)>>} }

(***************************************************************************)
(* Response-API translator                                                 *)
(***************************************************************************)
\* utils: generateItemId / generateResponseId
generateItemId(prefix, n) == prefix \o "_" \o ToString(n)

generateResponseId(originalId) ==
  IF Truthy(originalId)
  THEN IF Len(originalId) >= 5 /\ SubSeq(originalId, 1, 5) = "resp_"
       THEN originalId ELSE "resp_" \o originalId
  ELSE "resp_random"

mapFinishReasonToStatus(finishReason) ==
  IF ~Truthy(finishReason) THEN "in_progress"
  ELSE CASE finishReason \in {"stop", "tool_calls"} -> "completed"
         [] finishReason = "length" -> "incomplete"
         [] finishReason = "content_filter" -> "incomplete"
         [] OTHER -> "completed"

InitialChunk == NoChoiceChunk(<<>>)
Payload == [model |-> "gpt-4", input |-> "test"]

createStreamState(payload, initialChunk) ==
  [responseId |-> generateResponseId(initialChunk.id),
   model |-> initialChunk.model,
   createdAt |-> initialChunk.created,
   messageStarted |-> FALSE,
   currentOutputIndex |-> 0,
   currentContentIndex |-> 0,
   messageItemId |-> null,
   accumulatedText |-> "",
   totalAccumulatedText |-> "",
   accumulatedToolCalls |-> <<>>,
   outputItems |-> <<>>,
   usage |-> [input_tokens |-> 0, input_tokens_details |-> <<>>,
              output_tokens |-> 0, total_tokens |-> 0],
   payload |-> payload]

\* accumulatedToolCalls is a JavaScript Map: a list of [key, value] entries in
\* insertion order; set() on an existing key keeps the entry's position.
MapHas(m, k) == \E i \in 1..Len(m) : m[i].key = k
MapPos(m, k) == CHOOSE i \in 1..Len(m) : m[i].key = k
MapSet(m, k, v) ==
  IF MapHas(m, k) THEN [m EXCEPT ![MapPos(m, k)] = [key |-> k, value |-> v]]
  ELSE Append(m, [key |-> k, value |-> v])

OutputTextPart(text) == [type |-> "output_text", text |-> text]

parseUsage(usage) ==
  [input_tokens |-> usage.prompt_tokens,
   input_tokens_details |->
     IF usage.prompt_tokens_details # <<>> /\ usage.prompt_tokens_details[1].cached_tokens # 0
     THEN <<[cached_tokens |-> usage.prompt_tokens_details[1].cached_tokens]>>
     ELSE <<>>,
   output_tokens |-> usage.completion_tokens,
   total_tokens |-> usage.total_tokens]

\* updateUsageFromChunk also forgetting the open text message.
updateUsageFromChunk_ForgetMessage(c, chunk) ==
  IF chunk.usage = <<>> THEN c
  ELSE [c EXCEPT !.state.usage = parseUsage(chunk.usage[1]),
                 !.state.messageStarted = FALSE]

updateUsageFromChunk(c, chunk) ==
  IF chunk.usage = <<>> THEN c
  ELSE [c EXCEPT !.state.usage = parseUsage(chunk.usage[1])]

\* Mutant of buildResponseObject: output_text is taken from the per-block
\* accumulatedText instead of totalAccumulatedText.
buildResponseObject_BlockText(st, status, incompleteDetails) ==
  [id |-> st.responseId,
   object |-> "response",
   status |-> status,
   created_at |-> st.createdAt,
   model |-> st.model,
   output |-> st.outputItems,
   output_text |-> IF st.accumulatedText # "" THEN st.accumulatedText ELSE null,
   incomplete_details |-> incompleteDetails,
   usage |-> st.usage]

buildResponseObject(st, status, incompleteDetails) ==
  [id |-> st.responseId,
   object |-> "response",
   status |-> status,
   created_at |-> st.createdAt,
   model |-> st.model,
   output |-> st.outputItems,
   output_text |-> IF st.totalAccumulatedText # "" THEN st.totalAccumulatedText ELSE null,
   incomplete_details |-> incompleteDetails,
   usage |-> st.usage]

buildInitialResponse(st) == buildResponseObject(st, "in_progress", <<>>)

\* Mutant of buildFinalResponse: incomplete_details is never filled in.
buildFinalResponse_NoDetails(st, finishReason) ==
  buildResponseObject(st, mapFinishReasonToStatus(finishReason), <<>>)

buildFinalResponse(st, finishReason) ==
  buildResponseObject(st, mapFinishReasonToStatus(finishReason),
    IF finishReason = "length" THEN <<[reason |-> "max_output_tokens"]>> ELSE <<>>)

startTextMessage(c) ==
  LET id == generateItemId("msg", c.rnd)
      messageItem == [id |-> id, type |-> "message", role |-> "assistant",
                      status |-> "in_progress", content |-> <<OutputTextPart("")>>]
  IN [state |-> [c.state EXCEPT !.messageItemId = id, !.messageStarted = TRUE],
      rnd |-> c.rnd + 1,
      events |-> c.events \o
        << [type |-> "response.output_item.added",
            output_index |-> c.state.currentOutputIndex, item |-> messageItem],
           [type |-> "response.content_part.added", item_id |-> id,
            output_index |-> c.state.currentOutputIndex,
            content_index |-> c.state.currentContentIndex,
            part |-> OutputTextPart("")] >>]

\* handleTextDelta that rebuilds totalAccumulatedText from the open block.
handleTextDelta_TotalFromBlock(c0, content) ==
  LET c == IF ~c0.state.messageStarted THEN startTextMessage(c0) ELSE c0
      itemId == IF c.state.messageItemId # null THEN c.state.messageItemId ELSE ""
  IN [c EXCEPT
        !.events = Append(@, [type |-> "response.output_text.delta", item_id |-> itemId,
                              output_index |-> c.state.currentOutputIndex,
                              content_index |-> c.state.currentContentIndex,
                              delta |-> content]),
        !.state.accumulatedText = @ \o content,
        !.state.totalAccumulatedText = c.state.accumulatedText \o content]

handleTextDelta(c0, content) ==
  LET c == IF ~c0.state.messageStarted THEN startTextMessage(c0) ELSE c0
      itemId == IF c.state.messageItemId # null THEN c.state.messageItemId ELSE ""
  IN [c EXCEPT
        !.events = Append(@, [type |-> "response.output_text.delta", item_id |-> itemId,
                              output_index |-> c.state.currentOutputIndex,
                              content_index |-> c.state.currentContentIndex,
                              delta |-> content]),
        !.state.accumulatedText = @ \o content,
        !.state.totalAccumulatedText = @ \o content]

\* Mutant of closeTextMessage: accumulatedText is not reset on close.
closeTextMessage_NoReset(c) ==
  LET st == c.state
      itemId == IF st.messageItemId # null THEN st.messageItemId ELSE ""
      completedMessage == [id |-> itemId, type |-> "message", role |-> "assistant",
                           status |-> "completed",
                           content |-> <<OutputTextPart(st.accumulatedText)>>]
  IN [c EXCEPT
        !.events = @ \o
          << [type |-> "response.output_text.done", item_id |-> itemId,
              output_index |-> st.currentOutputIndex,
              content_index |-> st.currentContentIndex,
              text |-> st.accumulatedText],
             [type |-> "response.content_part.done", item_id |-> itemId,
              output_index |-> st.currentOutputIndex,
              content_index |-> st.currentContentIndex,
              part |-> OutputTextPart(st.accumulatedText)],
             [type |-> "response.output_item.done",
              output_index |-> st.currentOutputIndex, item |-> completedMessage] >>,
        !.state.outputItems = Append(@, completedMessage),
        !.state.currentOutputIndex = @ + 1,
        !.state.messageStarted = FALSE]

\* closeTextMessage that leaves currentOutputIndex with the closed message.
closeTextMessage_NoIncrement(c) ==
  LET st == c.state
      itemId == IF st.messageItemId # null THEN st.messageItemId ELSE ""
      completedMessage == [id |-> itemId, type |-> "message", role |-> "assistant",
                           status |-> "completed",
                           content |-> <<OutputTextPart(st.accumulatedText)>>]
  IN [c EXCEPT
        !.events = @ \o
          << [type |-> "response.output_text.done", item_id |-> itemId,
              output_index |-> st.currentOutputIndex,
              content_index |-> st.currentContentIndex,
              text |-> st.accumulatedText],
             [type |-> "response.content_part.done", item_id |-> itemId,
              output_index |-> st.currentOutputIndex,
              content_index |-> st.currentContentIndex,
              part |-> OutputTextPart(st.accumulatedText)],
             [type |-> "response.output_item.done",
              output_index |-> st.currentOutputIndex, item |-> completedMessage] >>,
        !.state.outputItems = Append(@, completedMessage),
        !.state.messageStarted = FALSE,
        !.state.accumulatedText = ""]

closeTextMessage(c) ==
  LET st == c.state
      itemId == IF st.messageItemId # null THEN st.messageItemId ELSE ""
      completedMessage == [id |-> itemId, type |-> "message", role |-> "assistant",
                           status |-> "completed",
                           content |-> <<OutputTextPart(st.accumulatedText)>>]
  IN [c EXCEPT
        !.events = @ \o
          << [type |-> "response.output_text.done", item_id |-> itemId,
              output_index |-> st.currentOutputIndex,
              content_index |-> st.currentContentIndex,
              text |-> st.accumulatedText],
             [type |-> "response.content_part.done", item_id |-> itemId,
              output_index |-> st.currentOutputIndex,
              content_index |-> st.currentContentIndex,
              part |-> OutputTextPart(st.accumulatedText)],
             [type |-> "response.output_item.done",
              output_index |-> st.currentOutputIndex, item |-> completedMessage] >>,
        !.state.outputItems = Append(@, completedMessage),
        !.state.currentOutputIndex = @ + 1,
        !.state.messageStarted = FALSE,
        !.state.accumulatedText = ""]

\* Mutant of startToolCall: an open text message is not closed first.
startToolCall_NoClose(c, toolCall) ==
  LET toolOutputIndex == c.state.currentOutputIndex
      toolItem == [id |-> generateItemId("fc", c.rnd), type |-> "function_call",
                   call_id |-> IF toolCall.id # null THEN toolCall.id ELSE "",
                   name |-> IF toolCall.function.name # null THEN toolCall.function.name ELSE "",
                   arguments |-> "", status |-> "in_progress"]
  IN [c EXCEPT
        !.rnd = @ + 1,
        !.events = Append(@, [type |-> "response.output_item.added",
                              output_index |-> toolOutputIndex, item |-> toolItem]),
        !.state.accumulatedToolCalls =
           MapSet(@, toolCall.index,
                  [id |-> toolItem.id, callId |-> toolItem.call_id, name |-> toolItem.name,
                   args |-> "", outputIndex |-> toolOutputIndex]),
        !.state.currentOutputIndex = @ + 1]

\* startToolCall that leaves currentOutputIndex to be advanced at completion.
startToolCall_NoIncrement(c0, toolCall) ==
  LET c == IF c0.state.messageStarted THEN closeTextMessage(c0) ELSE c0
      toolOutputIndex == c.state.currentOutputIndex
      toolItem == [id |-> generateItemId("fc", c.rnd), type |-> "function_call",
                   call_id |-> IF toolCall.id # null THEN toolCall.id ELSE "",
                   name |-> IF toolCall.function.name # null THEN toolCall.function.name ELSE "",
                   arguments |-> "", status |-> "in_progress"]
  IN [c EXCEPT
        !.rnd = @ + 1,
        !.events = Append(@, [type |-> "response.output_item.added",
                              output_index |-> toolOutputIndex, item |-> toolItem]),
        !.state.accumulatedToolCalls =
           MapSet(@, toolCall.index,
                  [id |-> toolItem.id, callId |-> toolItem.call_id, name |-> toolItem.name,
                   args |-> "", outputIndex |-> toolOutputIndex])]

startToolCall(c0, toolCall) ==
  LET c == IF c0.state.messageStarted THEN closeTextMessage(c0) ELSE c0
      toolOutputIndex == c.state.currentOutputIndex
      toolItem == [id |-> generateItemId("fc", c.rnd), type |-> "function_call",
                   call_id |-> IF toolCall.id # null THEN toolCall.id ELSE "",
                   name |-> IF toolCall.function.name # null THEN toolCall.function.name ELSE "",
                   arguments |-> "", status |-> "in_progress"]
  IN [c EXCEPT
        !.rnd = @ + 1,
        !.events = Append(@, [type |-> "response.output_item.added",
                              output_index |-> toolOutputIndex, item |-> toolItem]),
        !.state.accumulatedToolCalls =
           MapSet(@, toolCall.index,
                  [id |-> toolItem.id, callId |-> toolItem.call_id, name |-> toolItem.name,
                   args |-> "", outputIndex |-> toolOutputIndex]),
        !.state.currentOutputIndex = @ + 1]

\* appendToolArguments forwarding the characters of an unknown slot.
appendToolArguments_ForwardUnknown(c, toolCall) ==
  IF ~Truthy(toolCall.function.arguments) THEN c
  ELSE IF ~MapHas(c.state.accumulatedToolCalls, toolCall.index)
  THEN [c EXCEPT
          !.events = Append(@, [type |-> "response.function_call_arguments.delta",
                                item_id |-> "",
                                output_index |-> c.state.currentOutputIndex,
                                delta |-> toolCall.function.arguments])]
  ELSE LET pos == MapPos(c.state.accumulatedToolCalls, toolCall.index)
           toolInfo == c.state.accumulatedToolCalls[pos].value
       IN [c EXCEPT
             !.state.accumulatedToolCalls[pos].value.args = @ \o toolCall.function.arguments,
             !.events = Append(@, [type |-> "response.function_call_arguments.delta",
                                   item_id |-> toolInfo.id,
                                   output_index |-> toolInfo.outputIndex,
                                   delta |-> toolCall.function.arguments])]

appendToolArguments(c, toolCall) ==
  IF ~MapHas(c.state.accumulatedToolCalls, toolCall.index)
     \/ ~Truthy(toolCall.function.arguments)
  THEN c
  ELSE LET pos == MapPos(c.state.accumulatedToolCalls, toolCall.index)
           toolInfo == c.state.accumulatedToolCalls[pos].value
       IN [c EXCEPT
             !.state.accumulatedToolCalls[pos].value.args = @ \o toolCall.function.arguments,
             !.events = Append(@, [type |-> "response.function_call_arguments.delta",
                                   item_id |-> toolInfo.id,
                                   output_index |-> toolInfo.outputIndex,
                                   delta |-> toolCall.function.arguments])]

RECURSIVE handleToolCalls(_, _)
handleToolCalls(c, toolCalls) ==
  IF toolCalls = <<>> THEN c
  ELSE LET toolCall == Head(toolCalls)
           c1 == IF Truthy(toolCall.id) /\ Truthy(toolCall.function.name)
                 THEN startToolCall(c, toolCall) ELSE c
           c2 == IF Truthy(toolCall.function.arguments)
                 THEN appendToolArguments(c1, toolCall) ELSE c1
       IN handleToolCalls(c2, Tail(toolCalls))

RECURSIVE completeToolCallsFrom(_, _)
completeToolCallsFrom(c, i) ==
  IF i > Len(c.state.accumulatedToolCalls) THEN c
  ELSE LET toolInfo == c.state.accumulatedToolCalls[i].value
           completedToolCall == [id |-> toolInfo.id, type |-> "function_call",
                                 call_id |-> toolInfo.callId, name |-> toolInfo.name,
                                 arguments |-> toolInfo.args, status |-> "completed"]
       IN completeToolCallsFrom(
            [c EXCEPT
               !.events = @ \o
                 << [type |-> "response.function_call_arguments.done",
                     item_id |-> toolInfo.id, output_index |-> toolInfo.outputIndex,
                     arguments |-> toolInfo.args],
                    [type |-> "response.output_item.done",
                     output_index |-> toolInfo.outputIndex, item |-> completedToolCall] >>,
               !.state.outputItems = Append(@, completedToolCall)],
            i + 1)

\* Mutant of completeToolCalls: a tool call without arguments is skipped.
RECURSIVE completeToolCallsSkipping(_, _)
completeToolCallsSkipping(c, i) ==
  IF i > Len(c.state.accumulatedToolCalls) THEN c
  ELSE LET toolInfo == c.state.accumulatedToolCalls[i].value
           completedToolCall == [id |-> toolInfo.id, type |-> "function_call",
                                 call_id |-> toolInfo.callId, name |-> toolInfo.name,
                                 arguments |-> toolInfo.args, status |-> "completed"]
       IN IF toolInfo.args = "" THEN completeToolCallsSkipping(c, i + 1)
          ELSE completeToolCallsSkipping(
                 [c EXCEPT
                    !.events = @ \o
                      << [type |-> "response.function_call_arguments.done",
                          item_id |-> toolInfo.id, output_index |-> toolInfo.outputIndex,
                          arguments |-> toolInfo.args],
                         [type |-> "response.output_item.done",
                          output_index |-> toolInfo.outputIndex, item |-> completedToolCall] >>,
                    !.state.outputItems = Append(@, completedToolCall)],
                 i + 1)

completeToolCalls_SkipEmptyArgs(c) == completeToolCallsSkipping(c, 1)

completeToolCalls(c) == completeToolCallsFrom(c, 1)

FinishEventType(finishReason) ==
  IF finishReason = "length" THEN "response.incomplete" ELSE "response.completed"

\* Mutant of handleFinish: the open text message is closed only when it has text.
handleFinish_SkipEmpty(c0, chunk, finishReason) ==
  LET c1 == IF c0.state.messageStarted /\ c0.state.accumulatedText # ""
            THEN closeTextMessage(c0) ELSE c0
      c2 == completeToolCalls(c1)
      c3 == updateUsageFromChunk(c2, chunk)
      finalResponse == buildFinalResponse(c3.state, finishReason)
  IN [c3 EXCEPT !.events = Append(@, [type |-> FinishEventType(finishReason),
                                      response |-> finalResponse])]

\* Mutant of handleFinish: the tool calls are completed before the text message is closed.
handleFinish_ToolsFirst(c0, chunk, finishReason) ==
  LET c1 == completeToolCalls(c0)
      c2 == IF c1.state.messageStarted THEN closeTextMessage(c1) ELSE c1
      c3 == updateUsageFromChunk(c2, chunk)
      finalResponse == buildFinalResponse(c3.state, finishReason)
  IN [c3 EXCEPT !.events = Append(@, [type |-> FinishEventType(finishReason),
                                      response |-> finalResponse])]

handleFinish(c0, chunk, finishReason) ==
  LET c1 == IF c0.state.messageStarted THEN closeTextMessage(c0) ELSE c0
      c2 == completeToolCalls(c1)
      c3 == updateUsageFromChunk(c2, chunk)
      finalResponse == buildFinalResponse(c3.state, finishReason)
  IN [c3 EXCEPT !.events = Append(@, [type |-> FinishEventType(finishReason),
                                      response |-> finalResponse])]

translateChunkToEvents(chunk, st, n) ==
  LET c0 == [state |-> st, events |-> <<>>, rnd |-> n]
  IN IF Len(chunk.choices) = 0 THEN updateUsageFromChunk(c0, chunk)
     ELSE LET choice == chunk.choices[1]
              delta == choice.delta
              c1 == IF Truthy(delta.content) THEN handleTextDelta(c0, delta.content) ELSE c0
              c2 == IF delta.tool_calls # <<>> THEN handleToolCalls(c1, delta.tool_calls) ELSE c1
              c3 == IF Truthy(choice.finish_reason)
                    THEN handleFinish(c2, chunk, choice.finish_reason) ELSE c2
          IN c3

(***************************************************************************)
(* Anthropic translator                                                    *)
(***************************************************************************)
mapOpenAIStopReasonToAnthropic(finishReason) ==
  IF finishReason = null THEN null
  ELSE CASE finishReason = "stop" -> "end_turn"
         [] finishReason = "length" -> "max_tokens"
         [] finishReason = "tool_calls" -> "tool_use"
         [] finishReason = "content_filter" -> "end_turn"

AnthInitState ==
  [messageStartSent |-> FALSE, contentBlockIndex |-> 0, contentBlockOpen |-> FALSE,
   contentBlockType |-> null, accumulatedReasoningOpaque |-> null, toolCalls |-> <<>>]

\* usage object of message_start (output 0) and message_delta
AnthUsage(chunk, output_tokens) ==
  LET prompt == IF chunk.usage = <<>> THEN 0 ELSE chunk.usage[1].prompt_tokens
      details == IF chunk.usage = <<>> THEN <<>> ELSE chunk.usage[1].prompt_tokens_details
      cached == IF details = <<>> THEN 0 ELSE details[1].cached_tokens
  IN [input_tokens |-> prompt - cached, output_tokens |-> output_tokens,
      cache_read_input_tokens |-> [i \in 1..Len(details) |-> details[i].cached_tokens]]

\* Mutant of closeCurrentBlock: the flushed signature is not cleared.
closeCurrentBlock_KeepOpaque(c) ==
  IF ~c.state.contentBlockOpen THEN c
  ELSE LET c1 == IF c.state.contentBlockType = "thinking"
                    /\ Truthy(c.state.accumulatedReasoningOpaque)
                 THEN [c EXCEPT
                         !.events = Append(@,
                           [type |-> "content_block_delta",
                            index |-> c.state.contentBlockIndex,
                            delta |-> [type |-> "signature_delta",
                                       signature |-> c.state.accumulatedReasoningOpaque]])]
                 ELSE c
       IN [c1 EXCEPT
             !.events = Append(@, [type |-> "content_block_stop",
                                   index |-> c1.state.contentBlockIndex]),
             !.state.contentBlockIndex = @ + 1,
             !.state.contentBlockOpen = FALSE,
             !.state.contentBlockType = null]

\* closeCurrentBlock that does not advance contentBlockIndex.
closeCurrentBlock_NoIncrement(c) ==
  IF ~c.state.contentBlockOpen THEN c
  ELSE LET c1 == IF c.state.contentBlockType = "thinking"
                    /\ Truthy(c.state.accumulatedReasoningOpaque)
                 THEN [c EXCEPT
                         !.events = Append(@,
                           [type |-> "content_block_delta",
                            index |-> c.state.contentBlockIndex,
                            delta |-> [type |-> "signature_delta",
                                       signature |-> c.state.accumulatedReasoningOpaque]]),
                         !.state.accumulatedReasoningOpaque = null]
                 ELSE c
       IN [c1 EXCEPT
             !.events = Append(@, [type |-> "content_block_stop",
                                   index |-> c1.state.contentBlockIndex]),
             !.state.contentBlockOpen = FALSE,
             !.state.contentBlockType = null]

closeCurrentBlock(c) ==
  IF ~c.state.contentBlockOpen THEN c
  ELSE LET c1 == IF c.state.contentBlockType = "thinking"
                    /\ Truthy(c.state.accumulatedReasoningOpaque)
                 THEN [c EXCEPT
                         !.events = Append(@,
                           [type |-> "content_block_delta",
                            index |-> c.state.contentBlockIndex,
                            delta |-> [type |-> "signature_delta",
                                       signature |-> c.state.accumulatedReasoningOpaque]]),
                         !.state.accumulatedReasoningOpaque = null]
                 ELSE c
       IN [c1 EXCEPT
             !.events = Append(@, [type |-> "content_block_stop",
                                   index |-> c1.state.contentBlockIndex]),
             !.state.contentBlockIndex = @ + 1,
             !.state.contentBlockOpen = FALSE,
             !.state.contentBlockType = null]

\* Mutant of the message_start step: messageStartSent is never set.
anthMessageStart_NoFlag(c, chunk) ==
  IF c.state.messageStartSent THEN c
  ELSE [c EXCEPT
          !.events = Append(@,
            [type |-> "message_start",
             message |-> [id |-> chunk.id, type |-> "message", role |-> "assistant",
                          content |-> <<>>, model |-> chunk.model, stop_reason |-> null,
                          stop_sequence |-> null, usage |-> AnthUsage(chunk, 0)]])]

anthMessageStart(c, chunk) ==
  IF c.state.messageStartSent THEN c
  ELSE [c EXCEPT
          !.events = Append(@,
            [type |-> "message_start",
             message |-> [id |-> chunk.id, type |-> "message", role |-> "assistant",
                          content |-> <<>>, model |-> chunk.model, stop_reason |-> null,
                          stop_sequence |-> null, usage |-> AnthUsage(chunk, 0)]]),
          !.state.messageStartSent = TRUE]

anthReasoning(c0, delta) ==
  IF ~(Truthy(delta.reasoning_text) \/ Truthy(delta.reasoning_opaque)) THEN c0
  ELSE LET c1 == IF c0.state.contentBlockType # "thinking"
                 THEN LET cc == closeCurrentBlock(c0)
                      IN [cc EXCEPT
                            !.events = Append(@,
                              [type |-> "content_block_start",
                               index |-> cc.state.contentBlockIndex,
                               content_block |-> [type |-> "thinking", thinking |-> ""]]),
                            !.state.contentBlockOpen = TRUE,
                            !.state.contentBlockType = "thinking"]
                 ELSE c0
           c2 == IF Truthy(delta.reasoning_text)
                 THEN [c1 EXCEPT
                         !.events = Append(@,
                           [type |-> "content_block_delta",
                            index |-> c1.state.contentBlockIndex,
                            delta |-> [type |-> "thinking_delta",
                                       thinking |-> delta.reasoning_text]])]
                 ELSE c1
       IN IF Truthy(delta.reasoning_opaque)
          THEN [c2 EXCEPT
                  !.state.accumulatedReasoningOpaque =
                     (IF @ = null THEN "" ELSE @) \o delta.reasoning_opaque]
          ELSE c2

\* The text step closing an open thinking block only: text that arrives
\* while a tool block is open goes into that block.
anthContent_KeepTool(c0, delta) ==
  IF ~Truthy(delta.content) THEN c0
  ELSE LET c2 == IF c0.state.contentBlockType = "thinking" THEN closeCurrentBlock(c0) ELSE c0
           c3 == IF ~c2.state.contentBlockOpen
                 THEN [c2 EXCEPT
                         !.events = Append(@,
                           [type |-> "content_block_start",
                            index |-> c2.state.contentBlockIndex,
                            content_block |-> [type |-> "text", text |-> ""]]),
                         !.state.contentBlockOpen = TRUE,
                         !.state.contentBlockType = "text"]
                 ELSE c2
       IN [c3 EXCEPT
             !.events = Append(@,
               [type |-> "content_block_delta", index |-> c3.state.contentBlockIndex,
                delta |-> [type |-> "text_delta", text |-> delta.content]])]

anthContent(c0, delta) ==
  IF ~Truthy(delta.content) THEN c0
  ELSE LET c1 == IF c0.state.contentBlockType = "thinking" THEN closeCurrentBlock(c0) ELSE c0
           c2 == IF c1.state.contentBlockType = "tool" THEN closeCurrentBlock(c1) ELSE c1
           c3 == IF ~c2.state.contentBlockOpen
                 THEN [c2 EXCEPT
                         !.events = Append(@,
                           [type |-> "content_block_start",
                            index |-> c2.state.contentBlockIndex,
                            content_block |-> [type |-> "text", text |-> ""]]),
                         !.state.contentBlockOpen = TRUE,
                         !.state.contentBlockType = "text"]
                 ELSE c2
       IN [c3 EXCEPT
             !.events = Append(@,
               [type |-> "content_block_delta", index |-> c3.state.contentBlockIndex,
                delta |-> [type |-> "text_delta", text |-> delta.content]])]

anthStartToolCall(c0, toolCall) ==
  LET c == IF c0.state.contentBlockOpen THEN closeCurrentBlock(c0) ELSE c0
      anthropicBlockIndex == c.state.contentBlockIndex
      info == [id |-> toolCall.id, name |-> toolCall.function.name,
               anthropicBlockIndex |-> anthropicBlockIndex]
  IN [c EXCEPT
        !.state.toolCalls =
           [i \in DOMAIN @ \cup {toolCall.index} |-> IF i = toolCall.index THEN info ELSE @[i]],
        !.events = Append(@,
          [type |-> "content_block_start", index |-> anthropicBlockIndex,
           content_block |-> [type |-> "tool_use", id |-> toolCall.id,
                              name |-> toolCall.function.name]]),
        !.state.contentBlockOpen = TRUE,
        !.state.contentBlockType = "tool"]

anthToolArguments(c, toolCall) ==
  IF toolCall.index \in DOMAIN c.state.toolCalls
  THEN [c EXCEPT
          !.events = Append(@,
            [type |-> "content_block_delta",
             index |-> c.state.toolCalls[toolCall.index].anthropicBlockIndex,
             delta |-> [type |-> "input_json_delta",
                        partial_json |-> toolCall.function.arguments]])]
  ELSE c

RECURSIVE anthToolCalls(_, _)
anthToolCalls(c, toolCalls) ==
  IF toolCalls = <<>> THEN c
  ELSE LET toolCall == Head(toolCalls)
           c1 == IF Truthy(toolCall.id) /\ Truthy(toolCall.function.name)
                 THEN anthStartToolCall(c, toolCall) ELSE c
           c2 == IF Truthy(toolCall.function.arguments)
                 THEN anthToolArguments(c1, toolCall) ELSE c1
       IN anthToolCalls(c2, Tail(toolCalls))

anthFinish(c0, chunk, finish_reason) ==
  LET c == IF c0.state.contentBlockOpen THEN closeCurrentBlock(c0) ELSE c0
  IN [c EXCEPT
        !.events = @ \o
          << [type |-> "message_delta",
              delta |-> [stop_reason |-> mapOpenAIStopReasonToAnthropic(finish_reason),
                         stop_sequence |-> null],
              usage |-> AnthUsage(chunk,
                          IF chunk.usage = <<>> THEN 0 ELSE chunk.usage[1].completion_tokens)],
             [type |-> "message_stop"] >>]

translateChunkToAnthropicEvents(chunk, st) ==
  LET c0 == [state |-> st, events |-> <<>>]
  IN IF Len(chunk.choices) = 0 THEN c0
     ELSE LET choice == chunk.choices[1]
              delta == choice.delta
              c1 == anthMessageStart(c0, chunk)
              c2 == anthReasoning(c1, delta)
              c3 == anthContent(c2, delta)
              c4 == IF delta.tool_calls # <<>> THEN anthToolCalls(c3, delta.tool_calls) ELSE c3
          IN IF Truthy(choice.finish_reason)
             THEN anthFinish(c4, chunk, choice.finish_reason) ELSE c4

(***************************************************************************)
(* Gemini translator: src/src/routes/gemini/stream-translation.ts          *)
(* It returns one response or null; null is the empty sequence and a       *)
(* response r is <<r>>.                                                    *)
(***************************************************************************)
createGeminiStreamState(model) ==
  [accumulatedFunctionCalls |-> <<>>, model |-> model]

\* mapOpenAIFinishReasonToGemini without a case for content_filter.
mapOpenAIFinishReasonToGemini_NoSafety(finishReason) ==
  IF ~Truthy(finishReason) THEN "FINISH_REASON_UNSPECIFIED"
  ELSE CASE finishReason = "stop" -> "STOP"
         [] finishReason = "length" -> "MAX_TOKENS"
         [] finishReason = "tool_calls" -> "STOP"
         [] OTHER -> "OTHER"

mapOpenAIFinishReasonToGemini(finishReason) ==
  IF ~Truthy(finishReason) THEN "FINISH_REASON_UNSPECIFIED"
  ELSE CASE finishReason = "stop" -> "STOP"
         [] finishReason = "length" -> "MAX_TOKENS"
         [] finishReason = "tool_calls" -> "STOP"
         [] finishReason = "content_filter" -> "SAFETY"
         [] OTHER -> "OTHER"

buildTextParts(content) ==
  IF ~Truthy(content) THEN <<>> ELSE <<[text |-> content]>>

\* JSON.parse of an argument text, {} when it throws. An object is the list
\* of its [key, value] members; the texts that parse are those the argument
\* fragments of the chunks can spell.
parseToolCallArgs(args) ==
  CASE args = "{}" -> <<>>
    [] args = "{\"a\":1}" -> <<[key |-> "a", value |-> 1]>>
    [] OTHER -> <<>>

\* accumulateToolCalls that ignores the fragments carrying arguments only.
RECURSIVE accumulateToolCalls_StartsOnly(_, _)
accumulateToolCalls_StartsOnly(toolCalls, st) ==
  IF toolCalls = <<>> THEN st
  ELSE LET toolCall == Head(toolCalls)
           calls == st.accumulatedFunctionCalls
           st1 == IF Truthy(toolCall.id) /\ Truthy(toolCall.function.name)
                  THEN [st EXCEPT !.accumulatedFunctionCalls =
                          MapSet(calls, toolCall.index,
                                 [id |-> toolCall.id,
                                  name |-> toolCall.function.name,
                                  args |-> IF toolCall.function.arguments = null
                                           THEN "" ELSE toolCall.function.arguments])]
                  ELSE st
       IN accumulateToolCalls_StartsOnly(Tail(toolCalls), st1)

RECURSIVE accumulateToolCalls(_, _)
accumulateToolCalls(toolCalls, st) ==
  IF toolCalls = <<>> THEN st
  ELSE LET toolCall == Head(toolCalls)
           calls == st.accumulatedFunctionCalls
           st1 == IF Truthy(toolCall.id) /\ Truthy(toolCall.function.name)
                  THEN [st EXCEPT !.accumulatedFunctionCalls =
                          MapSet(calls, toolCall.index,
                                 [id |-> toolCall.id,
                                  name |-> toolCall.function.name,
                                  args |-> IF toolCall.function.arguments = null
                                           THEN "" ELSE toolCall.function.arguments])]
                  ELSE IF Truthy(toolCall.function.arguments)
                            /\ MapHas(calls, toolCall.index)
                  THEN LET existing == calls[MapPos(calls, toolCall.index)].value
                       IN [st EXCEPT !.accumulatedFunctionCalls =
                             MapSet(calls, toolCall.index,
                                    [existing EXCEPT !.args =
                                       @ \o toolCall.function.arguments])]
                  ELSE st
       IN accumulateToolCalls(Tail(toolCalls), st1)

buildUsageMetadata(chunk) ==
  IF chunk.usage = <<>>
  THEN [promptTokenCount |-> 0, candidatesTokenCount |-> 0, totalTokenCount |-> 0,
        cachedContentTokenCount |-> <<>>]
  ELSE LET usage == chunk.usage[1]
       IN [promptTokenCount |-> usage.prompt_tokens,
           candidatesTokenCount |-> usage.completion_tokens,
           totalTokenCount |-> usage.total_tokens,
           cachedContentTokenCount |->
             [i \in 1..Len(usage.prompt_tokens_details) |->
                usage.prompt_tokens_details[i].cached_tokens]]

buildFunctionCallResponse(finishReason, usage, st) ==
  LET calls == st.accumulatedFunctionCalls
      functionCallParts ==
        [i \in 1..Len(calls) |->
           [functionCall |-> [id |-> calls[i].value.id,
                              name |-> calls[i].value.name,
                              args |-> parseToolCallArgs(calls[i].value.args)]]]
  IN [candidates |-> <<[content |-> <<[role |-> "model", parts |-> functionCallParts]>>,
                        finishReason |-> finishReason, index |-> 0]>>,
      usageMetadata |-> <<usage>>,
      modelVersion |-> st.model]

buildTextResponse(parts, finishReason, usage, model) ==
  [candidates |-> <<[content |-> IF Len(parts) > 0
                                 THEN <<[role |-> "model", parts |-> parts]>> ELSE <<>>,
                     finishReason |-> finishReason, index |-> 0]>>,
   usageMetadata |-> <<usage>>,
   modelVersion |-> model]

buildFinalChunk(finishReason, textParts, chunk, st) ==
  LET usage == buildUsageMetadata(chunk)
      geminiFinishReason == mapOpenAIFinishReasonToGemini(finishReason)
  IN IF Len(st.accumulatedFunctionCalls) > 0
     THEN buildFunctionCallResponse(geminiFinishReason, usage, st)
     ELSE buildTextResponse(textParts, geminiFinishReason, usage, st.model)

\* buildContentChunk answering an empty part list with an empty response
\* instead of null.
buildContentChunk_EmptyResponse(parts) ==
  <<[candidates |-> <<[content |-> <<[role |-> "model", parts |-> parts]>>,
                       finishReason |-> null, index |-> 0]>>,
     usageMetadata |-> <<>>,
     modelVersion |-> null]>>

buildContentChunk(parts) ==
  IF Len(parts) = 0 THEN <<>>
  ELSE <<[candidates |-> <<[content |-> <<[role |-> "model", parts |-> parts]>>,
                            finishReason |-> null, index |-> 0]>>,
          usageMetadata |-> <<>>,
          modelVersion |-> null]>>

translateChunkToGeminiResponse(chunk, st) ==
  IF Len(chunk.choices) = 0 THEN [state |-> st, response |-> <<>>]
  ELSE LET choice == chunk.choices[1]
           delta == choice.delta
           textParts == buildTextParts(delta.content)
           st1 == accumulateToolCalls(delta.tool_calls, st)
       IN IF Truthy(choice.finish_reason)
          THEN [state |-> st1,
                response |-> <<buildFinalChunk(choice.finish_reason, textParts, chunk, st1)>>]
          ELSE [state |-> st1, response |-> buildContentChunk(textParts)]

(***************************************************************************)
(* Gemini request translation: src/src/routes/gemini/request-translation.ts *)
(* A part is a record whose only field names its kind (text, functionCall,  *)
(* functionResponse, inlineData). The content of a message is a string, an  *)
(* array of content parts or null: [str |-> s], [arr |-> parts] or NoContent.*)
(* A JSON object is the list of its [key, value] members.                   *)
(***************************************************************************)
isTextPart(part) == "text" \in DOMAIN part
isFunctionCallPart(part) == "functionCall" \in DOMAIN part
isFunctionResponsePart(part) == "functionResponse" \in DOMAIN part
isInlineDataPart(part) == "inlineData" \in DOMAIN part

Str(s) == [str |-> s]
Arr(parts) == [arr |-> parts]
NoContent == [none |-> TRUE]
IsStr(content) == "str" \in DOMAIN content
IsArr(content) == "arr" \in DOMAIN content

Message(role, content, tool_calls, tool_call_id) ==
  [role |-> role, content |-> content, tool_calls |-> tool_calls,
   tool_call_id |-> tool_call_id]

\* JSON.stringify of the objects the requests carry.
JSONstringify(object) ==
  CASE object = <<>> -> "{}"
    [] object = <<[key |-> "a", value |-> 1]>> -> "{\"a\":1}"
    [] object = <<[key |-> "temp", value |-> 20]>> -> "{\"temp\":20}"

\* utils: `call_${functionName}_${randomBytes(8).toString("hex")}`
generateToolCallId(functionName) == "call_" \o functionName \o "_random"

RECURSIVE extractTextFromParts(_)
extractTextFromParts(parts) ==
  IF parts = <<>> THEN ""
  ELSE (IF isTextPart(Head(parts)) THEN Head(parts).text ELSE "")
       \o extractTextFromParts(Tail(parts))

translateContentToMessages(content) ==
  LET role == IF content.role = "model" THEN "assistant" ELSE "user"
      textParts == SelectSeq(content.parts, isTextPart)
      functionCallParts == SelectSeq(content.parts, isFunctionCallPart)
      functionResponseParts == SelectSeq(content.parts, isFunctionResponsePart)
      inlineDataParts == SelectSeq(content.parts, isInlineDataPart)
      toolMessages ==
        [i \in 1..Len(functionResponseParts) |->
           LET fr == functionResponseParts[i].functionResponse
           IN Message("tool", Str(JSONstringify(fr.response)), <<>>,
                      IF fr.id # null THEN fr.id ELSE generateToolCallId(fr.name))]
      textContent == extractTextFromParts(textParts)
      toolCalls ==
        [i \in 1..Len(functionCallParts) |->
           LET fc == functionCallParts[i].functionCall
           IN [id |-> IF fc.id # null THEN fc.id ELSE generateToolCallId(fc.name),
               type |-> "function",
               function |-> [name |-> fc.name, arguments |-> JSONstringify(fc.args)]]]
      contentParts ==
        [i \in 1..Len(textParts) |-> [type |-> "text", text |-> textParts[i].text]]
        \o [i \in 1..Len(inlineDataParts) |->
              [type |-> "image_url",
               image_url |-> [url |-> "data:" \o inlineDataParts[i].inlineData.mimeType
                                     \o ";base64," \o inlineDataParts[i].inlineData.data]]]
  IN toolMessages \o
     (IF Len(textParts) > 0 \/ Len(functionCallParts) > 0 \/ Len(inlineDataParts) > 0
      THEN IF role = "assistant" /\ Len(functionCallParts) > 0
           THEN <<Message("assistant",
                          IF textContent # "" THEN Str(textContent) ELSE NoContent,
                          toolCalls, null)>>
           ELSE IF Len(inlineDataParts) > 0
           THEN <<Message(role, Arr(contentParts), <<>>, null)>>
           ELSE IF textContent # ""
           THEN <<Message(role, Str(textContent), <<>>, null)>>
           ELSE <<>>
      ELSE <<>>)

\* lastMessage is merged.at(-1): <<>> when merged is empty.
canMergeMessages(lastMessage, message) ==
  /\ lastMessage # <<>>
  /\ lastMessage[1].role = message.role
  /\ lastMessage[1].role # "tool"
  /\ lastMessage[1].tool_calls = <<>>
  /\ message.tool_calls = <<>>

\* mergeMessageContent joining two strings without the blank line.
mergeMessageContent_NoBlankLine(lastContent, currentContent) ==
  IF IsStr(lastContent) /\ IsStr(currentContent)
  THEN Str(lastContent.str \o currentContent.str)
  ELSE IF IsArr(lastContent) /\ IsArr(currentContent)
  THEN Arr(lastContent.arr \o currentContent.arr)
  ELSE IF IsStr(lastContent) /\ IsArr(currentContent)
  THEN Arr(<<[type |-> "text", text |-> lastContent.str]>> \o currentContent.arr)
  ELSE IF IsArr(lastContent) /\ IsStr(currentContent)
  THEN Arr(lastContent.arr \o <<[type |-> "text", text |-> currentContent.str]>>)
  ELSE IF currentContent # NoContent THEN currentContent ELSE lastContent

mergeMessageContent(lastContent, currentContent) ==
  IF IsStr(lastContent) /\ IsStr(currentContent)
  THEN Str(lastContent.str \o "\n\n" \o currentContent.str)
  ELSE IF IsArr(lastContent) /\ IsArr(currentContent)
  THEN Arr(lastContent.arr \o currentContent.arr)
  ELSE IF IsStr(lastContent) /\ IsArr(currentContent)
  THEN Arr(<<[type |-> "text", text |-> lastContent.str]>> \o currentContent.arr)
  ELSE IF IsArr(lastContent) /\ IsStr(currentContent)
  THEN Arr(lastContent.arr \o <<[type |-> "text", text |-> currentContent.str]>>)
  ELSE IF currentContent # NoContent THEN currentContent ELSE lastContent

\* The loop of mergeConsecutiveMessages: merged is the list built so far.
RECURSIVE mergeInto(_, _)
mergeInto(merged, messages) ==
  IF messages = <<>> THEN merged
  ELSE LET message == Head(messages)
           lastMessage == IF merged = <<>> THEN <<>> ELSE <<merged[Len(merged)]>>
       IN mergeInto(
            IF canMergeMessages(lastMessage, message)
            THEN [merged EXCEPT ![Len(merged)].content =
                    mergeMessageContent(@, message.content)]
            ELSE Append(merged, message),
            Tail(messages))

mergeConsecutiveMessages(messages) == mergeInto(<<>>, messages)

RECURSIVE flatMapContents(_)
flatMapContents(contents) ==
  IF contents = <<>> THEN <<>>
  ELSE translateContentToMessages(Head(contents)) \o flatMapContents(Tail(contents))

\* The message list before the merge: the system message, then the messages
\* of every content entry.
unmergedMessages(contents, systemInstruction) ==
  (IF systemInstruction # <<>> /\ extractTextFromParts(systemInstruction[1].parts) # ""
   THEN <<Message("system", Str(extractTextFromParts(systemInstruction[1].parts)),
                  <<>>, null)>>
   ELSE <<>>)
  \o flatMapContents(contents)

translateContentsToMessages(contents, systemInstruction) ==
  mergeConsecutiveMessages(unmergedMessages(contents, systemInstruction))

\* An absent parameters field is <<>>; {} is a schema without type and properties.
EmptySchema == [type |-> null, properties |-> <<>>]

RECURSIVE flatMapDeclarations(_)
flatMapDeclarations(tools) ==
  IF tools = <<>> THEN <<>>
  ELSE [i \in 1..Len(Head(tools).functionDeclarations) |->
          LET funcDecl == Head(tools).functionDeclarations[i]
          IN [type |-> "function",
              function |->
                [name |-> funcDecl.name,
                 description |-> funcDecl.description,
                 parameters |->
                   IF funcDecl.parameters # <<>> THEN funcDecl.parameters[1]
                   ELSE IF funcDecl.parametersJsonSchema # <<>>
                   THEN funcDecl.parametersJsonSchema[1]
                   ELSE EmptySchema]]]
       \o flatMapDeclarations(Tail(tools))

\* undefined is <<>>.
translateGeminiToolsToOpenAI(tools) ==
  IF Len(tools) = 0 THEN <<>> ELSE flatMapDeclarations(tools)

\* generationConfig and toolConfig are copied field by field and left out.
translateToOpenAI(req, model, stream) ==
  [model |-> model,
   messages |-> translateContentsToMessages(req.contents, req.systemInstruction),
   stream |-> stream,
   tools |-> translateGeminiToolsToOpenAI(req.tools)]

\* The requests a Gemini client sends.
TextPart(t) == [text |-> t]
FunctionCallPart(id) ==
  [functionCall |-> [id |-> id, name |-> "get_weather",
                     args |-> <<[key |-> "a", value |-> 1]>>]]
FunctionResponsePart(id) ==
  [functionResponse |-> [id |-> id, name |-> "get_weather",
                         response |-> <<[key |-> "temp", value |-> 20]>>]]
InlineDataPart == [inlineData |-> [mimeType |-> "image/png", data |-> "AAAA"]]

GeminiContent(role, parts) == [role |-> role, parts |-> parts]

GeminiContents ==
  { GeminiContent("user", <<TextPart("Part 1")>>),
    GeminiContent("user", <<TextPart("Part 2")>>),
    GeminiContent("user", <<TextPart("")>>),
    GeminiContent("user", <<TextPart("see"), InlineDataPart>>),
    GeminiContent("user", <<FunctionResponsePart("call_0"), TextPart("ok")>>),
    GeminiContent("model", <<TextPart("Reply")>>),
    GeminiContent("model", <<TextPart("calling"), FunctionCallPart(null)>>),
    GeminiContent("model", <<FunctionCallPart("call_0")>>) }

Schema(type, properties) == [type |-> type, properties |-> properties]

FunctionDeclaration(parameters, parametersJsonSchema) ==
  [name |-> "get_weather", description |-> "Get weather info",
   parameters |-> parameters, parametersJsonSchema |-> parametersJsonSchema]

GeminiToolLists ==
  { <<>>,
    <<[functionDeclarations |-> <<FunctionDeclaration(<<>>, <<>>)>>]>>,
    <<[functionDeclarations |->
         <<FunctionDeclaration(
             <<Schema("OBJECT",
                      <<[key |-> "location", value |-> Schema("STRING", <<>>)]>>)>>,
             <<>>)>>]>>,
    <<[functionDeclarations |->
         <<FunctionDeclaration(
             <<>>,
             <<Schema("object",
                      <<[key |-> "location", value |-> Schema("string", <<>>)]>>)>>)>>]>> }

RECURSIVE ContentLists(_)
ContentLists(n) ==
  IF n = 0 THEN {<<>>}
  ELSE ContentLists(n - 1)
       \cup { Append(l, c) : l \in {k \in ContentLists(n - 1) : Len(k) = n - 1},
                              c \in GeminiContents }

GeminiRequests ==
  { [contents |-> contents, systemInstruction |-> systemInstruction, tools |-> tools] :
      contents \in ContentLists(MaxContents) \ {<<>>},
      systemInstruction \in {<<>>, <<GeminiContent("user", <<TextPart("Be brief")>>)>>},
      tools \in GeminiToolLists }

(***************************************************************************)
(* Choice of the upstream interface: src/unnamed/part_007 (get-models).    *)
(* A model's supported_endpoints is <<>> when absent and <<set>> otherwise; *)
(* the result of getModelById is <<>> when no model has the id.            *)
(***************************************************************************)
Endpoints == {"/responses", "/chat/completions", "/v1/messages"}

Models ==
  { [id |-> "gpt-4", supported_endpoints |-> e] :
      e \in {<<>>} \cup { <<set>> : set \in SUBSET Endpoints } }

\* useResponsesApi with the fallback of its header comment.
useResponsesApi_Fallback(model) ==
  IF model.supported_endpoints = <<>> THEN FALSE
  ELSE "/responses" \in model.supported_endpoints[1]

useResponsesApi(model) ==
  IF model.supported_endpoints = <<>> THEN FALSE
  ELSE LET supportsResponses == "/responses" \in model.supported_endpoints[1]
           supportsChatCompletions ==
             "/chat/completions" \in model.supported_endpoints[1]
       IN IF ~supportsChatCompletions /\ supportsResponses THEN TRUE ELSE FALSE

\* found is getModelById(modelId).
shouldUseResponsesApi(found) ==
  IF found # <<>> THEN useResponsesApi(found[1]) ELSE FALSE

(***************************************************************************)
(* Anthropic request normalisation:                                        *)
(* src/src/routes/messages/non-stream-translation.ts                       *)
(* A payload is [model, max_tokens, thinking]; an absent thinking is <<>>.  *)
(***************************************************************************)
minBudget == 1024

Max(a, b) == IF a >= b THEN a ELSE b
Min(a, b) == IF a <= b THEN a ELSE b

normalizeAnthropicThinking(payload) ==
  IF payload.thinking = <<>> \/ payload.thinking[1].type # "enabled"
  THEN payload
  ELSE LET budgetTokens == payload.thinking[1].budget_tokens
       IN IF payload.max_tokens <= budgetTokens
          THEN IF payload.max_tokens <= minBudget
               THEN [payload EXCEPT !.thinking = <<>>]
               ELSE [payload EXCEPT !.thinking =
                       <<[type |-> "enabled",
                          budget_tokens |-> Max(minBudget, payload.max_tokens - 1)]>>]
          ELSE IF budgetTokens < minBudget
          THEN [payload EXCEPT !.thinking =
                  <<[type |-> "enabled", budget_tokens |-> minBudget]>>]
          ELSE payload

\* payload.model.toLowerCase().includes("claude") on the models of the requests.
isClaudeModel(model) == model = "claude-sonnet-4"

\* translateToOpenAI of the messages route: the fields computed from
\* max_tokens and thinking; an undefined thinking_budget is <<>>.
anthropicTranslateToOpenAI(payload) ==
  LET maxBudget == Max(0, payload.max_tokens - 1)
  IN [max_tokens |-> payload.max_tokens,
      thinking_budget |->
        IF /\ isClaudeModel(payload.model)
           /\ payload.thinking # <<>>
           /\ payload.thinking[1].type = "enabled"
           /\ maxBudget >= minBudget
        THEN <<Max(minBudget, Min(payload.thinking[1].budget_tokens, maxBudget))>>
        ELSE <<>>]

\* Token counts around the minimum budget.
TokenCounts == {-1, 0, 1, 500, 1023, 1024, 1025, 1026, 2000}

AnthropicPayloads ==
  { [model |-> model, max_tokens |-> max_tokens, thinking |-> thinking] :
      model \in {"claude-sonnet-4", "gpt-4"},
      max_tokens \in TokenCounts,
      thinking \in {<<>>}
        \cup { <<[type |-> type, budget_tokens |-> budget_tokens]>> :
                 type \in {"enabled", "disabled"}, budget_tokens \in TokenCounts } }

\* The non-streaming translator (translateToGemini and its buildContentParts).
buildContentParts(message) ==
  (IF Truthy(message.content) THEN <<[text |-> message.content]>> ELSE <<>>)
  \o [i \in 1..Len(message.tool_calls) |->
        [functionCall |-> [id |-> message.tool_calls[i].id,
                           name |-> message.tool_calls[i].function.name,
                           args |-> parseToolCallArgs(
                                      message.tool_calls[i].function.arguments)]]]

translateToGemini(response, model) ==
  LET choice == response.choices[1]
      parts == buildContentParts(choice.message)
      finishReason == mapOpenAIFinishReasonToGemini(choice.finish_reason)
  IN [candidates |-> <<[content |-> IF Len(parts) > 0
                                    THEN <<[role |-> "model", parts |-> parts]>> ELSE <<>>,
                        finishReason |-> finishReason, index |-> 0]>>,
      usageMetadata |-> <<buildUsageMetadata(response)>>,
      modelVersion |-> model]

(***************************************************************************)
(* A connection: the handler of its route feeds every upstream chunk to    *)
(* the translator and writes the returned events in order.                 *)
(***************************************************************************)
Routes == {"responses", "messages", "gemini"}

\* The stream loop before its first iteration.
HandlerIdle ==
  /\ raw = <<>>
  /\ pending = <<>>
  /\ sink = <<>>
  /\ phase = "streaming"
  /\ firstChunk = TRUE
  /\ held = <<>>
  /\ aborted = FALSE

\* The passthrough before its stream callback runs.
NativeIdle ==
  /\ keepAliveActive = TRUE
  /\ keepAliveTimer = null
  /\ hasCompleted = FALSE
  /\ npc = "start"
  /\ kaWrite = "none"
  /\ kaWrites = 0
  /\ forwarded = 0

ConnsIdle == conns = <<>> /\ ids = 0

\* No request has been received.
RequestIdle ==
  /\ request = <<>>
  /\ upstream = <<>>
  /\ completion = <<>>
  /\ reply = <<>>

Init ==
  /\ route \in Routes
  /\ chunks = <<>>
  /\ events = <<>>
  /\ sent = <<>>
  /\ state = createStreamState(Payload, InitialChunk)
  /\ rnd = 0
  /\ astate = AnthInitState
  /\ gstate = createGeminiStreamState("gpt-4")
  /\ HandlerIdle
  /\ NativeIdle
  /\ ConnsIdle
  /\ RequestIdle

\* responses handler: one call of translateChunkToEvents(chunk, streamState);
\* events and sent hold what the translator returns (the response.created and
\* response.in_progress snapshots the handler writes before the first call
\* are not translator output and are not part of them).
TranslateChunk ==
  /\ route = "responses"
  /\ Len(chunks) < MaxChunks
  /\ \E chunk \in RespChunks :
       LET r == translateChunkToEvents(chunk, state, rnd)
       IN /\ state' = r.state
          /\ events' = r.events
          /\ rnd' = r.rnd
          /\ sent' = sent \o r.events
          /\ chunks' = Append(chunks, chunk)
  /\ UNCHANGED <<route, astate, gstate, hvars, aborted, nvars, cvars, xvars>>

\* messages handler: one call of translateChunkToAnthropicEvents(chunk, streamState)
TranslateAnthropicChunk ==
  /\ route = "messages"
  /\ Len(chunks) < MaxChunks
  /\ \E chunk \in AnthChunks :
       LET r == translateChunkToAnthropicEvents(chunk, astate)
       IN /\ astate' = r.state
          /\ events' = r.events
          /\ sent' = sent \o r.events
          /\ chunks' = Append(chunks, chunk)
  /\ UNCHANGED <<route, state, rnd, gstate, hvars, aborted, nvars, cvars, xvars>>

\* gemini handler: one call of translateChunkToGeminiResponse(chunk, streamState);
\* a null result writes nothing.
TranslateGeminiChunk ==
  /\ route = "gemini"
  /\ completion = <<>>
  /\ Len(chunks) < MaxChunks
  /\ \E chunk \in GeminiChunks :
       LET r == translateChunkToGeminiResponse(chunk, gstate)
       IN /\ gstate' = r.state
          /\ events' = r.response
          /\ sent' = sent \o r.response
          /\ chunks' = Append(chunks, chunk)
  /\ UNCHANGED <<route, state, rnd, astate, hvars, aborted, nvars, cvars, xvars>>

\* handleGenerateContent once upstream has answered with a whole completion
\* (isNonStreaming(response)): translateToGemini(response, model) is the body
\* returned. A request is answered either this way or by a stream of chunks.
GenerateContent ==
  /\ route = "gemini"
  /\ chunks = <<>>
  /\ completion = <<>>
  /\ \E response \in Completions :
       /\ completion' = <<response>>
       /\ reply' = <<translateToGemini(response, gstate.model)>>
  /\ UNCHANGED <<tvars, hvars, aborted, nvars, cvars, request, upstream>>

Next ==
  \/ TranslateChunk \/ TranslateAnthropicChunk \/ TranslateGeminiChunk
  \/ GenerateContent

Spec == Init /\ [][Next]_vars

\* The state the translator test forces before the finish chunk
\* (state.messageStarted = true; state.accumulatedText = ""): a text message
\* that is open and has received no delta.
InitForced ==
  /\ route = "responses"
  /\ chunks = <<>>
  /\ events = <<>>
  /\ sent = <<>>
  /\ state = [createStreamState(Payload, InitialChunk) EXCEPT
                !.messageStarted = TRUE, !.accumulatedText = ""]
  /\ rnd = 0
  /\ astate = AnthInitState
  /\ gstate = createGeminiStreamState("gpt-4")
  /\ HandlerIdle
  /\ NativeIdle
  /\ ConnsIdle
  /\ RequestIdle

SpecForced == InitForced /\ [][TranslateChunk]_vars

(***************************************************************************)
(* The stream loop of the translating handlers                             *)
(*   responses: src/src/routes/responses/handler.ts                        *)
(*   messages:  src/src/routes/messages/handler.ts                         *)
(*   gemini:    src/src/routes/gemini/stream-translation.ts                *)
(* for await (const rawEvent of response) { ... }: one iteration takes an  *)
(* upstream event, and every stream.writeSSE is awaited, so other          *)
(* callbacks (a client disconnect) run between two writes.                 *)
(***************************************************************************)
\* An upstream event: data is its text; chunk is what JSON.parse(data) yields,
\* empty when the text is not JSON.
DoneEvent == [data |-> "[DONE]", chunk |-> <<>>]
BlankEvent == [data |-> "", chunk |-> <<>>]
MalformedEvent == [data |-> "{\"choices\":[", chunk |-> <<>>]
ChunkEvent(c) == [data |-> "{\"choices\":[...]}", chunk |-> <<c>>]

\* JSON.parse(rawEvent.data): <<value>>, or <<>> when it throws SyntaxError.
JSONparse(rawEvent) == rawEvent.chunk

\* The chunks upstream sends to a stream loop.
HandlerChunks ==
  { Chunk(TextDelta("A"), null, <<>>),
    Chunk(TextDelta("B"), null, <<Usage(10, <<4>>, 5)>>),
    Chunk(ToolDelta(<<StartArgsFrag(0)>>), null, <<>>),
    Chunk(EmptyDelta, "stop", <<>>),
    NoChoiceChunk(<<Usage(7, <<>>, 3)>>) }

\* The translator call of the handler of route rt.
TranslateOn(rt, chunk, st, n, ast, gst) ==
  CASE rt = "responses" ->
         LET r == translateChunkToEvents(chunk, st, n)
         IN [state |-> r.state, rnd |-> r.rnd, astate |-> ast, gstate |-> gst,
             events |-> r.events]
    [] rt = "messages" ->
         LET r == translateChunkToAnthropicEvents(chunk, ast)
         IN [state |-> st, rnd |-> n, astate |-> r.state, gstate |-> gst,
             events |-> r.events]
    [] rt = "gemini" ->
         LET r == translateChunkToGeminiResponse(chunk, gst)
         IN [state |-> st, rnd |-> n, astate |-> ast, gstate |-> r.state,
             events |-> r.response]

\* A loop that takes the next upstream event without awaiting the writes of
\* the current iteration.
CanRead_NoAwait == phase = "streaming" /\ held = <<>>

\* The loop asks upstream for the next event only after the writes of the
\* current iteration have been awaited.
CanRead == phase = "streaming" /\ pending = <<>> /\ held = <<>>

\* A [DONE] branch that finalizes the Response-API stream before it leaves
\* the loop, as a finish chunk with reason "stop" would.
ReadDone_Finalize ==
  /\ CanRead
  /\ Len(raw) < MaxEvents
  /\ raw' = Append(raw, DoneEvent)
  /\ phase' = "done"
  /\ LET c == [state |-> state, events |-> <<>>, rnd |-> rnd]
         r == IF route = "responses" /\ ~firstChunk
              THEN handleFinish(c, NoChoiceChunk(<<>>), "stop") ELSE c
     IN /\ state' = r.state
        /\ sink' = sink \o r.events
  /\ UNCHANGED <<route, chunks, events, sent, rnd, astate, gstate,
                 pending, firstChunk, held, aborted, nvars, cvars, xvars>>

\* rawEvent.data === "[DONE]": break
ReadDone ==
  /\ CanRead
  /\ Len(raw) < MaxEvents
  /\ raw' = Append(raw, DoneEvent)
  /\ phase' = "done"
  /\ UNCHANGED <<tvars, pending, sink, firstChunk, held, aborted, nvars, cvars, xvars>>

\* The upstream sequence ends without a [DONE] event: the loop is left.
UpstreamEnds ==
  /\ CanRead
  /\ phase' = "done"
  /\ UNCHANGED <<tvars, raw, pending, sink, firstChunk, held, aborted, nvars, cvars, xvars>>

\* !rawEvent.data: continue
ReadBlank ==
  /\ CanRead
  /\ Len(raw) < MaxEvents
  /\ raw' = Append(raw, BlankEvent)
  /\ UNCHANGED <<tvars, pending, sink, phase, firstChunk, held, aborted, nvars, cvars, xvars>>

\* JSON.parse(rawEvent.data) throws; no try/catch encloses it, so the exception
\* leaves the loop and the callback.
ReadMalformed ==
  /\ CanRead
  /\ Len(raw) < MaxEvents
  /\ JSONparse(MalformedEvent) = <<>>
  /\ raw' = Append(raw, MalformedEvent)
  /\ phase' = "failed"
  /\ UNCHANGED <<tvars, pending, sink, firstChunk, held, aborted, nvars, cvars, xvars>>

\* A well-formed chunk, responses handler, firstChunk: the stream state is
\* created from the chunk and response.created and response.in_progress are
\* written before the chunk is translated.
ReadFirstChunk ==
  /\ CanRead
  /\ Len(raw) < MaxEvents
  /\ route = "responses"
  /\ firstChunk
  /\ \E c \in HandlerChunks :
       LET chunk == JSONparse(ChunkEvent(c))[1]
           streamState == createStreamState(Payload, chunk)
       IN /\ raw' = Append(raw, ChunkEvent(c))
          /\ state' = streamState
          /\ pending' = <<[type |-> "response.created",
                           response |-> buildInitialResponse(streamState)],
                          [type |-> "response.in_progress",
                           response |-> buildInitialResponse(streamState)]>>
          /\ held' = <<chunk>>
  /\ UNCHANGED <<route, chunks, events, sent, rnd, astate, gstate,
                 sink, phase, firstChunk, aborted, nvars, cvars, xvars>>

\* A well-formed chunk otherwise: it is translated at once.
ReadChunk ==
  /\ CanRead
  /\ Len(raw) < MaxEvents
  /\ ~(route = "responses" /\ firstChunk)
  /\ \E c \in HandlerChunks :
       \E r \in {TranslateOn(route, JSONparse(ChunkEvent(c))[1],
                             state, rnd, astate, gstate)} :
          /\ raw' = Append(raw, ChunkEvent(c))
          /\ state' = r.state
          /\ rnd' = r.rnd
          /\ astate' = r.astate
          /\ gstate' = r.gstate
          /\ events' = r.events
          /\ sent' = sent \o r.events
          /\ pending' = pending \o r.events
          /\ chunks' = Append(chunks, JSONparse(ChunkEvent(c))[1])
  /\ UNCHANGED <<route, sink, phase, firstChunk, held, aborted, nvars, cvars, xvars>>

\* The first iteration without firstChunk = false.
TranslateHeld_KeepFirstChunk ==
  /\ phase = "streaming"
  /\ held # <<>>
  /\ pending = <<>>
  /\ LET r == translateChunkToEvents(held[1], state, rnd)
     IN /\ state' = r.state
        /\ rnd' = r.rnd
        /\ events' = r.events
        /\ sent' = sent \o r.events
        /\ pending' = r.events
        /\ chunks' = Append(chunks, held[1])
  /\ held' = <<>>
  /\ UNCHANGED <<route, astate, gstate, raw, sink, phase, firstChunk, aborted, nvars, cvars, xvars>>

\* responses handler, first chunk: both snapshots are written; firstChunk = false
\* and translateChunkToEvents(chunk, streamState).
TranslateHeld ==
  /\ phase = "streaming"
  /\ held # <<>>
  /\ pending = <<>>
  /\ LET r == translateChunkToEvents(held[1], state, rnd)
     IN /\ state' = r.state
        /\ rnd' = r.rnd
        /\ events' = r.events
        /\ sent' = sent \o r.events
        /\ pending' = r.events
        /\ chunks' = Append(chunks, held[1])
  /\ held' = <<>>
  /\ firstChunk' = FALSE
  /\ UNCHANGED <<route, astate, gstate, raw, sink, phase, aborted, nvars, cvars, xvars>>

\* await stream.writeSSE(event) resolves: the next event of the iteration.
WriteSSE ==
  /\ phase = "streaming"
  /\ pending # <<>>
  /\ sink' = Append(sink, Head(pending))
  /\ pending' = Tail(pending)
  /\ UNCHANGED <<tvars, raw, phase, firstChunk, held, aborted, nvars, cvars, xvars>>

\* await stream.writeSSE(event) rejects because the client is gone: the
\* exception leaves the loop. Whether a write on a closed stream resolves or
\* rejects is decided by the streaming library; both outcomes are taken.
WriteFails ==
  /\ phase = "streaming"
  /\ pending # <<>>
  /\ aborted
  /\ phase' = "failed"
  /\ UNCHANGED <<tvars, raw, pending, sink, firstChunk, held, aborted, nvars, cvars, xvars>>

\* The client disconnects. The translating handlers register no onAbort
\* callback and never read the stream's aborted flag.
ClientAbort ==
  /\ phase = "streaming"
  /\ ~aborted
  /\ aborted' = TRUE
  /\ UNCHANGED <<tvars, hvars, nvars, cvars, xvars>>

NextHandler ==
  \/ ReadDone \/ UpstreamEnds \/ ReadBlank \/ ReadMalformed
  \/ ReadFirstChunk \/ ReadChunk
  \/ TranslateHeld \/ WriteSSE \/ WriteFails \/ ClientAbort

SpecHandler == Init /\ [][NextHandler]_vars

(***************************************************************************)
(* The native Response-API passthrough with its keep-alive timer           *)
(*   handleNativeResponsesApi: src/unnamed/part_004                        *)
(* The stream callback, the timer callback, the completion callbacks of    *)
(* the keep-alive write and the abort callback run on one event loop: each *)
(* is a step, and they interleave at every await of the callback.          *)
(***************************************************************************)
KeepAlive == [keepAliveActive |-> keepAliveActive, keepAliveTimer |-> keepAliveTimer]

scheduleKeepAlive(k) ==
  IF ~k.keepAliveActive THEN k
  ELSE [k EXCEPT !.keepAliveTimer = "pending"]

\* stopKeepAlive that cancels the timer and leaves keepAliveActive as it is.
stopKeepAlive_TimerOnly(k) ==
  [k EXCEPT !.keepAliveTimer = null]

\* clearTimeout on a handle that has fired does nothing; the handle is dropped.
stopKeepAlive(k) ==
  [keepAliveActive |-> FALSE, keepAliveTimer |-> null]

\* The upstream events of the passthrough: the type of the parsed event, or
\* what makes the iteration skip.
NativeEvents == {"", "{not json", "response.output_text.delta", "response.completed"}

\* try { scheduleKeepAlive(); for await (...) ...: up to the first await.
NativeEnter ==
  /\ npc = "start"
  /\ npc' = "loop"
  /\ keepAliveActive' = scheduleKeepAlive(KeepAlive).keepAliveActive
  /\ keepAliveTimer' = scheduleKeepAlive(KeepAlive).keepAliveTimer
  /\ UNCHANGED <<tvars, hvars, aborted, hasCompleted, kaWrite, kaWrites, forwarded, cvars, xvars>>

\* One iteration: an empty event is skipped; a parsed event is forwarded with
\* stream.writeSSE; a parse or write error is caught and the event skipped.
NativeForward ==
  /\ npc = "loop"
  /\ forwarded < MaxForward
  /\ \E data \in NativeEvents :
       hasCompleted' = (hasCompleted \/ data \in {"response.completed", "response.done"})
  /\ forwarded' = forwarded + 1
  /\ UNCHANGED <<tvars, hvars, aborted, keepAliveActive, keepAliveTimer, npc,
                 kaWrite, kaWrites, cvars, xvars>>

\* [DONE] or the end of the upstream sequence: finally { stopKeepAlive() }.
NativeDone ==
  /\ npc = "loop"
  /\ npc' = "returned"
  /\ keepAliveActive' = stopKeepAlive(KeepAlive).keepAliveActive
  /\ keepAliveTimer' = stopKeepAlive(KeepAlive).keepAliveTimer
  /\ UNCHANGED <<tvars, hvars, aborted, hasCompleted, kaWrite, kaWrites, forwarded, cvars, xvars>>

\* The upstream iterator throws: catch (error) { ...; throw error }
\* finally { stopKeepAlive() }.
NativeThrows ==
  /\ npc = "loop"
  /\ npc' = "thrown"
  /\ keepAliveActive' = stopKeepAlive(KeepAlive).keepAliveActive
  /\ keepAliveTimer' = stopKeepAlive(KeepAlive).keepAliveTimer
  /\ UNCHANGED <<tvars, hvars, aborted, hasCompleted, kaWrite, kaWrites, forwarded, cvars, xvars>>

\* stream.onAbort(() => { stopKeepAlive() }); the loop itself goes on.
NativeAbort ==
  /\ npc = "loop"
  /\ ~aborted
  /\ aborted' = TRUE
  /\ keepAliveActive' = stopKeepAlive(KeepAlive).keepAliveActive
  /\ keepAliveTimer' = stopKeepAlive(KeepAlive).keepAliveTimer
  /\ UNCHANGED <<tvars, hvars, hasCompleted, npc, kaWrite, kaWrites, forwarded, cvars, xvars>>

\* The timer callback of a setInterval: the timer stays armed after it fires.
TimerFires_Interval ==
  /\ keepAliveTimer = "pending"
  /\ kaWrites < MaxKeepAlives
  /\ keepAliveTimer' = "pending"
  /\ IF ~keepAliveActive
     THEN UNCHANGED <<kaWrite, kaWrites>>
     ELSE kaWrite' = "inflight" /\ kaWrites' = kaWrites + 1
  /\ UNCHANGED <<tvars, hvars, aborted, keepAliveActive, hasCompleted, npc, forwarded, cvars, xvars>>

\* The setTimeout callback: if (!keepAliveActive) return; stream.write(...).
TimerFires ==
  /\ keepAliveTimer = "pending"
  /\ kaWrites < MaxKeepAlives
  /\ keepAliveTimer' = "fired"
  /\ IF ~keepAliveActive
     THEN UNCHANGED <<kaWrite, kaWrites>>
     ELSE kaWrite' = "inflight" /\ kaWrites' = kaWrites + 1
  /\ UNCHANGED <<tvars, hvars, aborted, keepAliveActive, hasCompleted, npc, forwarded, cvars, xvars>>

\* .then(() => { scheduleKeepAlive() })
KeepAliveWritten ==
  /\ kaWrite = "inflight"
  /\ kaWrite' = "none"
  /\ keepAliveActive' = scheduleKeepAlive(KeepAlive).keepAliveActive
  /\ keepAliveTimer' = scheduleKeepAlive(KeepAlive).keepAliveTimer
  /\ UNCHANGED <<tvars, hvars, aborted, hasCompleted, npc, kaWrites, forwarded, cvars, xvars>>

\* .catch(() => { stopKeepAlive() })
KeepAliveFailed ==
  /\ kaWrite = "inflight"
  /\ kaWrite' = "none"
  /\ keepAliveActive' = stopKeepAlive(KeepAlive).keepAliveActive
  /\ keepAliveTimer' = stopKeepAlive(KeepAlive).keepAliveTimer
  /\ UNCHANGED <<tvars, hvars, aborted, hasCompleted, npc, kaWrites, forwarded, cvars, xvars>>

InitNative == Init /\ route = "responses"

NextNative ==
  \/ NativeEnter \/ NativeForward \/ NativeDone \/ NativeThrows \/ NativeAbort
  \/ TimerFires \/ KeepAliveWritten \/ KeepAliveFailed

SpecNative == InitNative /\ [][NextNative]_vars

(***************************************************************************)
(* Two connections served by one process. Each streamSSE callback declares *)
(* its own stream state; generateItemId draws from the process's random    *)
(* source. Their loops interleave at every await, so the translator calls  *)
(* of the two connections come in any order.                               *)
(***************************************************************************)
Connections == {1, 2}

\* A stream state declared at module level, shared by every connection.
streamStateOf_ModuleLevel(cs, c) ==
  [state |-> cs[1].state, astate |-> cs[1].astate, gstate |-> cs[1].gstate]

\* const streamState = ... inside the callback: the state of connection c.
streamStateOf(cs, c) ==
  [state |-> cs[c].state, astate |-> cs[c].astate, gstate |-> cs[c].gstate]

FreshConnection(rt) ==
  [route |-> rt, chunks |-> <<>>, sent |-> <<>>,
   state |-> createStreamState(Payload, InitialChunk),
   astate |-> AnthInitState,
   gstate |-> createGeminiStreamState("gpt-4")]

InitTwo ==
  /\ route = "responses"
  /\ chunks = <<>>
  /\ events = <<>>
  /\ sent = <<>>
  /\ state = createStreamState(Payload, InitialChunk)
  /\ rnd = 0
  /\ astate = AnthInitState
  /\ gstate = createGeminiStreamState("gpt-4")
  /\ HandlerIdle
  /\ NativeIdle
  /\ RequestIdle
  /\ ids = 0
  /\ \E r1 \in Routes, r2 \in Routes :
       conns = [c \in Connections |-> FreshConnection(IF c = 1 THEN r1 ELSE r2)]

\* One translator call of the handler of connection c.
TranslateOnConnection ==
  /\ \E c \in Connections :
       /\ Len(conns[c].chunks) < MaxConnChunks
       /\ \E chunk \in HandlerChunks :
            \E r \in {TranslateOn(conns[c].route, chunk,
                                   streamStateOf(conns, c).state, ids,
                                   streamStateOf(conns, c).astate,
                                   streamStateOf(conns, c).gstate)} :
              /\ conns' = [conns EXCEPT ![c] =
                             [route |-> conns[c].route,
                              chunks |-> Append(conns[c].chunks, chunk),
                              sent |-> conns[c].sent \o r.events,
                              state |-> r.state,
                              astate |-> r.astate,
                              gstate |-> r.gstate]]
              /\ ids' = r.rnd
  /\ UNCHANGED <<tvars, hvars, aborted, nvars, xvars>>

SpecTwo == InitTwo /\ [][TranslateOnConnection]_vars

(***************************************************************************)
(* A request up to the call of the upstream service.                       *)
(***************************************************************************)
\* handleGenerateContent (stream = false) and handleStreamGenerateContent
\* (stream = true) up to await createChatCompletions(openAIPayload).
GeminiRequest ==
  /\ route = "gemini"
  /\ request = <<>>
  /\ \E req \in GeminiRequests, stream \in BOOLEAN :
       /\ request' = <<req>>
       /\ upstream' = <<translateToOpenAI(req, gstate.model, stream)>>
  /\ UNCHANGED <<tvars, hvars, aborted, nvars, cvars, completion, reply>>

\* handleCompletion of the messages route up to the call of the upstream
\* service. native is the outcome of shouldUseMessagesApi(model), which reads
\* the model list fetched from the service.
AnthropicRequest ==
  /\ route = "messages"
  /\ request = <<>>
  /\ \E payload \in AnthropicPayloads, native \in BOOLEAN :
       LET sanitizedPayload == normalizeAnthropicThinking(payload)
       IN /\ request' = <<payload>>
          /\ upstream' =
               <<[api |-> IF native THEN "messages" ELSE "chat",
                  sanitizedPayload |-> sanitizedPayload,
                  openAIPayload |->
                    IF native THEN <<>>
                    ELSE <<anthropicTranslateToOpenAI(sanitizedPayload)>>]>>
  /\ UNCHANGED <<tvars, hvars, aborted, nvars, cvars, completion, reply>>

\* handleResponses up to the choice between the native passthrough and the
\* translation to a chat completion.
ResponsesRequest ==
  /\ route = "responses"
  /\ request = <<>>
  /\ \E found \in {<<>>} \cup { <<model>> : model \in Models } :
       /\ request' = <<[model |-> "gpt-4", found |-> found]>>
       /\ upstream' =
            <<[api |-> IF shouldUseResponsesApi(found) THEN "responses" ELSE "chat"]>>
  /\ UNCHANGED <<tvars, hvars, aborted, nvars, cvars, completion, reply>>

NextRequest == GeminiRequest \/ AnthropicRequest \/ ResponsesRequest

SpecRequest == Init /\ [][NextRequest]_vars

(***************************************************************************)
(* Reading the chunk history and the event log                             *)
(***************************************************************************)
HasChoice(ch) == Len(ch.choices) > 0
IsFinishChunk(ch) == HasChoice(ch) /\ Truthy(ch.choices[1].finish_reason)
IsPureFinish(ch) ==
  /\ IsFinishChunk(ch)
  /\ ~Truthy(ch.choices[1].delta.content)
  /\ ch.choices[1].delta.tool_calls = <<>>
IsTextOnly(ch) ==
  /\ HasChoice(ch)
  /\ Truthy(ch.choices[1].delta.content)
  /\ ch.choices[1].delta.tool_calls = <<>>
  /\ ~Truthy(ch.choices[1].finish_reason)
IsToolStartOnly(ch) ==
  /\ HasChoice(ch)
  /\ ~Truthy(ch.choices[1].delta.content)
  /\ ~Truthy(ch.choices[1].finish_reason)
  /\ Len(ch.choices[1].delta.tool_calls) = 1
  /\ Truthy(ch.choices[1].delta.tool_calls[1].id)
  /\ Truthy(ch.choices[1].delta.tool_calls[1].function.name)
  /\ ~Truthy(ch.choices[1].delta.tool_calls[1].function.arguments)

LastChunk == chunks[Len(chunks)]
LastEvent == events[Len(events)]
Positions(log, type) == {i \in 1..Len(log) : log[i].type = type}
IsTerminal(e) == e.type \in {"response.completed", "response.incomplete"}
IsItemDone(e, itemType) == e.type = "response.output_item.done" /\ e.item.type = itemType
IsItemAdded(e, itemType) == e.type = "response.output_item.added" /\ e.item.type = itemType

\* The text fragments of the chunks, concatenated in arrival order.
RECURSIVE ConcatContent(_)
ConcatContent(cs) ==
  IF cs = <<>> THEN ""
  ELSE (IF HasChoice(Head(cs)) /\ Truthy(Head(cs).choices[1].delta.content)
        THEN Head(cs).choices[1].delta.content ELSE "") \o ConcatContent(Tail(cs))

\* What a client has received for message item id: its output_text.delta's, concatenated.
RECURSIVE ConcatDeltas(_, _)
ConcatDeltas(log, id) ==
  IF log = <<>> THEN ""
  ELSE (IF Head(log).type = "response.output_text.delta" /\ Head(log).item_id = id
        THEN Head(log).delta ELSE "") \o ConcatDeltas(Tail(log), id)

(***************************************************************************)
(* Claims                                                                  *)
(***************************************************************************)

\* C1: Response-API translator. In every reachable state, if no text message
\* is open (messageStarted = FALSE) then accumulatedText is empty; and the
\* text carried by the done events of a text block is exactly the text of
\* that block's own deltas, so nothing of a closed block shows up in the next.
C1_NoStaleText ==
  route = "responses" =>
    /\ (~state.messageStarted => state.accumulatedText = "")
    /\ \A i \in 1..Len(sent) :
         /\ sent[i].type = "response.output_text.done"
              => sent[i].text = ConcatDeltas(SubSeq(sent, 1, i), sent[i].item_id)
         /\ IsItemDone(sent[i], "message")
              => sent[i].item.content[1].text = ConcatDeltas(SubSeq(sent, 1, i), sent[i].item.id)

\* C1 witness: text -> tool -> text: a first block "A" was closed by a tool
\* call and a second block is open holding only its own text.
C1_Witness ==
  /\ route = "responses"
  /\ state.messageStarted /\ state.accumulatedText = "B"
  /\ state.accumulatedToolCalls # <<>>
  /\ \E i \in 1..Len(sent) : IsItemDone(sent[i], "message") /\ sent[i].item.content[1].text = "A"

\* C2: Response-API translator. A finish chunk arriving while a text message
\* is open with accumulatedText = "" closes it: the returned events hold an
\* output_item.done for a completed message with empty text, and that item is
\* appended to outputItems.
C2_EmptyMessageClosed ==
  [][ (state.messageStarted /\ state.accumulatedText = ""
       /\ Len(chunks') = Len(chunks) + 1 /\ IsPureFinish(chunks'[Len(chunks')]))
      => /\ \E i \in 1..Len(events') :
              /\ IsItemDone(events'[i], "message")
              /\ events'[i].item.status = "completed"
              /\ events'[i].item.content[1].text = ""
              /\ Len(state'.outputItems) > Len(state.outputItems)
              /\ state'.outputItems[Len(state.outputItems) + 1] = events'[i].item
         /\ ~state'.messageStarted ]_vars

\* C2 witness: the finish chunk has been handled on the forced state and a
\* completed empty message is the first output item.
C2_Witness ==
  /\ Len(chunks) = 1 /\ IsPureFinish(chunks[1])
  /\ Len(state.outputItems) = 1
  /\ state.outputItems[1].type = "message"
  /\ state.outputItems[1].content[1].text = ""

\* C3: Response-API translator. One or more chunks that carry only a
\* non-empty text fragment, then one finish chunk: the terminal event's
\* output_text is the concatenation of the fragments in arrival order and
\* outputItems holds exactly one item, a message with that same text.
TextOnlyThenFinish ==
  /\ route = "responses"
  /\ Len(chunks) >= 2
  /\ \A i \in 1..(Len(chunks) - 1) : IsTextOnly(chunks[i])
  /\ IsPureFinish(LastChunk)

C3_TextOnlyAggregate ==
  TextOnlyThenFinish =>
    /\ events # <<>> /\ IsTerminal(LastEvent)
    /\ LastEvent.response.output_text = ConcatContent(chunks)
    /\ Len(state.outputItems) = 1
    /\ state.outputItems[1].type = "message"
    /\ state.outputItems[1].content[1].text = ConcatContent(chunks)
    /\ LastEvent.response.output = state.outputItems

\* C3 witness: chunks A, B, finish "stop" gave the single text item "AB".
C3_Witness ==
  /\ TextOnlyThenFinish
  /\ Len(chunks) = 3
  /\ LastEvent.response.output_text = "AB"
  /\ LastEvent.response.status = "completed"

\* C4: Response-API translator. On a finish chunk the terminal event has an
\* incomplete terminal status when the finish reason is "length" and a
\* completed terminal status for every other finish reason (stop, tool_calls,
\* content_filter): event type and snapshot status alike.
C4_FinishStatus ==
  (route = "responses" /\ chunks # <<>> /\ IsFinishChunk(LastChunk)) =>
    LET reason == LastChunk.choices[1].finish_reason
    IN /\ IsTerminal(LastEvent)
       /\ reason = "length" =>
            LastEvent.type = "response.incomplete" /\ LastEvent.response.status = "incomplete"
       /\ reason # "length" =>
            LastEvent.type = "response.completed" /\ LastEvent.response.status = "completed"

\* C5: Response-API translator. When the only chunk with choices is a finish
\* chunk with reason "length", the single event produced is
\* response.incomplete with status incomplete, incomplete_details.reason
\* max_output_tokens, an empty output list and output_text null.
OnlyLengthFinish ==
  /\ route = "responses"
  /\ chunks # <<>>
  /\ \A i \in 1..(Len(chunks) - 1) : ~HasChoice(chunks[i])
  /\ IsPureFinish(LastChunk)
  /\ LastChunk.choices[1].finish_reason = "length"

C5_LengthOnly ==
  OnlyLengthFinish =>
    /\ Len(sent) = 1 /\ events = sent
    /\ sent[1].type = "response.incomplete"
    /\ sent[1].response.status = "incomplete"
    /\ sent[1].response.incomplete_details = <<[reason |-> "max_output_tokens"]>>
    /\ sent[1].response.output = <<>>
    /\ sent[1].response.output_text = null

\* C5 witness: the finish "length" chunk came after a usage-only chunk.
C5_Witness == OnlyLengthFinish /\ Len(chunks) = 2 /\ Len(sent) = 1

\* C6: Response-API translator. A tool-call start fragment (id and name, no
\* arguments) followed by a finish chunk yields exactly one function_call
\* item in outputItems, completed and with arguments "", announced by one
\* function_call_arguments.done and one output_item.done.
ToolStartThenFinish ==
  /\ route = "responses"
  /\ Len(chunks) = 2
  /\ IsToolStartOnly(chunks[1])
  /\ IsPureFinish(chunks[2])

C6_ToolStartThenFinish ==
  ToolStartThenFinish =>
    LET tc == chunks[1].choices[1].delta.tool_calls[1]
    IN /\ Len(state.outputItems) = 1
       /\ state.outputItems[1].type = "function_call"
       /\ state.outputItems[1].status = "completed"
       /\ state.outputItems[1].arguments = ""
       /\ state.outputItems[1].call_id = tc.id
       /\ state.outputItems[1].name = tc.function.name
       /\ Cardinality(Positions(sent, "response.function_call_arguments.done")) = 1
       /\ Cardinality(Positions(sent, "response.output_item.done")) = 1
       /\ \A i \in Positions(sent, "response.function_call_arguments.done") :
            sent[i].arguments = "" /\ sent[i].item_id = state.outputItems[1].id
       /\ \A i \in Positions(sent, "response.output_item.done") :
            sent[i].item = state.outputItems[1]

\* C6 witness: get_weather was started in slot 0 and the stream finished.
C6_Witness ==
  /\ ToolStartThenFinish
  /\ LastChunk.choices[1].finish_reason = "tool_calls"
  /\ state.outputItems[1].name = "get_weather"

\* Whether message item id has been added but not yet done in log.
MessageOpenIn(log, id) ==
  /\ \E j \in 1..Len(log) : IsItemAdded(log[j], "message") /\ log[j].item.id = id
  /\ ~\E j \in 1..Len(log) : IsItemDone(log[j], "message") /\ log[j].item.id = id

\* log[k-2..k] are the terminal events of message item id, carrying its text.
MessageClosedAt(log, k, id) ==
  /\ k >= 3 /\ k <= Len(log)
  /\ log[k - 2].type = "response.output_text.done"
  /\ log[k - 2].item_id = id
  /\ log[k - 2].text = ConcatDeltas(SubSeq(log, 1, k), id)
  /\ log[k - 1].type = "response.content_part.done"
  /\ log[k - 1].item_id = id
  /\ log[k - 1].part.text = ConcatDeltas(SubSeq(log, 1, k), id)
  /\ IsItemDone(log[k], "message")
  /\ log[k].item.id = id
  /\ log[k].item.status = "completed"
  /\ log[k].item.content[1].text = ConcatDeltas(SubSeq(log, 1, k), id)

IsBlockStart(e, blockType) ==
  e.type = "content_block_start" /\ e.content_block.type = blockType
IsBlockDelta(e, deltaType) ==
  e.type = "content_block_delta" /\ e.delta.type = deltaType

\* C7: Response-API and Anthropic translators. A tool-call fragment that
\* begins a new call while another block is open first closes that block:
\* every text message added before the call's output_item.added has had its
\* output_text.done, content_part.done and output_item.done (with its
\* accumulated text) before it and receives no delta after it; in Anthropic
\* every block started before the tool_use content_block_start has had its
\* content_block_stop before it.
C7_ToolStartClosesOpenBlock ==
  /\ route = "responses" =>
       \A i \in 1..Len(sent) : IsItemAdded(sent[i], "function_call") =>
         /\ \A j \in 1..(i - 1) : IsItemAdded(sent[j], "message") =>
              /\ \E k \in (j + 1)..(i - 1) : MessageClosedAt(sent, k, sent[j].item.id)
              /\ \A m \in (i + 1)..Len(sent) :
                   sent[m].type = "response.output_text.delta"
                     => sent[m].item_id # sent[j].item.id
         /\ \A j \in 1..(i - 1) : IsItemAdded(sent[j], "message") =>
              sent[j].output_index # sent[i].output_index
  /\ route = "messages" =>
       \A i \in 1..Len(sent) : IsBlockStart(sent[i], "tool_use") =>
         \A j \in 1..(i - 1) : sent[j].type = "content_block_start" =>
           /\ sent[j].index # sent[i].index
           /\ \E k \in (j + 1)..(i - 1) :
                sent[k].type = "content_block_stop" /\ sent[k].index = sent[j].index

\* C7 witness: chunks "A", tool-call start get_weather in slot 0, finish
\* "tool_calls": a text block opened and closed with its text, then the tool
\* item added and done with empty arguments, then response.completed.
C7_Witness ==
  /\ route = "responses"
  /\ Len(chunks) = 3
  /\ IsTextOnly(chunks[1]) /\ IsToolStartOnly(chunks[2]) /\ IsPureFinish(chunks[3])
  /\ \E k, i, d \in 1..Len(sent) :
       /\ k < i /\ i < d
       /\ IsItemDone(sent[k], "message") /\ sent[k].item.content[1].text = "A"
       /\ IsItemAdded(sent[i], "function_call") /\ sent[i].item.name = "get_weather"
       /\ IsItemDone(sent[d], "function_call") /\ sent[d].item.arguments = ""
  /\ sent[Len(sent)].type = "response.completed"

\* C8: Response-API translator. The events returned for a finish chunk end
\* with (1) the close events of the text message if one is open, (2) for
\* every registered tool-call slot, in registration order, a
\* function_call_arguments.done immediately followed by an output_item.done
\* with status completed, each item appended to outputItems, (3) exactly one
\* terminal event, the last of the list.
C8_FinishOrder ==
  (route = "responses" /\ chunks # <<>> /\ IsFinishChunk(LastChunk)) =>
    LET n == Len(events)
        N == Len(sent)
        tools == state.accumulatedToolCalls
        k == Len(tools)
        L == Len(state.outputItems)
        ArgsDone(t) == sent[N - 2 * k + 2 * (t - 1)]
        ItemDone(t) == sent[N - 2 * k + 2 * (t - 1) + 1]
        \* q: the last position before part (2)
        q == N - 2 * k - 1
        before2 == SubSeq(sent, 1, q)
        before1 == SubSeq(sent, 1, q - 1)
    IN /\ n >= 2 * k + 1 /\ L >= k
       /\ IsTerminal(events[n])
       /\ Cardinality({i \in 1..n : IsTerminal(events[i])}) = 1
       /\ \A t \in 1..k :
            /\ ArgsDone(t).type = "response.function_call_arguments.done"
            /\ ArgsDone(t).item_id = tools[t].value.id
            /\ ArgsDone(t).arguments = tools[t].value.args
            /\ IsItemDone(ItemDone(t), "function_call")
            /\ ItemDone(t).item.id = tools[t].value.id
            /\ ItemDone(t).item.status = "completed"
            /\ ItemDone(t).output_index = ArgsDone(t).output_index
            /\ state.outputItems[L - k + t] = ItemDone(t).item
       /\ \A i \in 1..(n - 2 * k - 1) :
            /\ events[i].type # "response.function_call_arguments.done"
            /\ ~IsItemDone(events[i], "function_call")
       /\ \A j \in 1..Len(before2) : IsItemAdded(before2[j], "message") =>
            ~MessageOpenIn(before2, before2[j].item.id)
       /\ \A j \in 1..Len(before1) :
            (IsItemAdded(before1[j], "message") /\ MessageOpenIn(before1, before1[j].item.id))
              => /\ MessageClosedAt(sent, q, before1[j].item.id)
                 /\ n >= 2 * k + 4
                 /\ L >= k + 1
                 /\ state.outputItems[L - k] = sent[q].item

\* C8 witness: a finish chunk arrived with a text message open and two
\* tool-call slots registered: three close events, two done pairs, one
\* terminal event.
C8_Witness ==
  /\ route = "responses"
  /\ chunks # <<>> /\ IsPureFinish(LastChunk)
  /\ Len(state.accumulatedToolCalls) = 2
  /\ Len(events) = 8
  /\ events[1].type = "response.output_text.done"
  /\ events[1].text = "A"

\* The reasoning_opaque fragments of the chunks, concatenated in arrival order.
RECURSIVE ConcatOpaque(_)
ConcatOpaque(cs) ==
  IF cs = <<>> THEN ""
  ELSE (IF HasChoice(Head(cs)) /\ Truthy(Head(cs).choices[1].delta.reasoning_opaque)
        THEN Head(cs).choices[1].delta.reasoning_opaque ELSE "") \o ConcatOpaque(Tail(cs))

\* The signatures of the signature_delta events of log, concatenated.
RECURSIVE ConcatSignatures(_)
ConcatSignatures(log) ==
  IF log = <<>> THEN ""
  ELSE (IF IsBlockDelta(Head(log), "signature_delta") THEN Head(log).delta.signature ELSE "")
       \o ConcatSignatures(Tail(log))

\* C9: Anthropic translator. The reasoning_opaque fragments accumulated for a
\* thinking block are emitted as at most one signature_delta, immediately
\* followed by the block's content_block_stop; no thinking_delta of the block
\* follows it; accumulatedReasoningOpaque is cleared once flushed (what has
\* been flushed plus what is pending is exactly what was received).
C9_SignatureBeforeStop ==
  route = "messages" =>
    /\ \A i \in 1..Len(sent) : IsBlockDelta(sent[i], "signature_delta") =>
         /\ i < Len(sent)
         /\ sent[i + 1].type = "content_block_stop"
         /\ sent[i + 1].index = sent[i].index
         /\ \E j \in 1..(i - 1) :
              IsBlockStart(sent[j], "thinking") /\ sent[j].index = sent[i].index
         /\ \A m \in 1..Len(sent) :
              (m # i /\ IsBlockDelta(sent[m], "signature_delta"))
                => sent[m].index # sent[i].index
         /\ \A m \in (i + 1)..Len(sent) :
              IsBlockDelta(sent[m], "thinking_delta") => sent[m].index # sent[i].index
    /\ astate.contentBlockType # "thinking" => astate.accumulatedReasoningOpaque = null
    /\ ConcatSignatures(sent)
         \o (IF astate.accumulatedReasoningOpaque = null THEN ""
             ELSE astate.accumulatedReasoningOpaque)
       = ConcatOpaque(chunks)

\* C9 witness: a thinking block received thinking text and two signature
\* fragments, flushed as the single signature "SS" when the block closed.
C9_Witness ==
  /\ route = "messages"
  /\ astate.accumulatedReasoningOpaque = null
  /\ \E i \in 1..Len(sent) :
       /\ IsBlockDelta(sent[i], "signature_delta") /\ sent[i].delta.signature = "SS"
       /\ \E m \in 1..(i - 1) :
            IsBlockDelta(sent[m], "thinking_delta") /\ sent[m].index = sent[i].index

\* C10: Anthropic translator. message_start is emitted exactly once, as the
\* first event of the stream, on the first chunk that has a choice; on a
\* finish chunk the last two events are message_delta (mapped stop reason and
\* usage) and message_stop, and every block opened before has its
\* content_block_stop before that message_delta.
C10_MessageEnvelope ==
  route = "messages" =>
    /\ (\E i \in 1..Len(chunks) : HasChoice(chunks[i])) <=> sent # <<>>
    /\ sent # <<>> => Positions(sent, "message_start") = {1}
    /\ (chunks # <<>> /\ IsFinishChunk(LastChunk)) =>
         LET N == Len(sent)
             reason == LastChunk.choices[1].finish_reason
         IN /\ N >= 3
            /\ sent[N].type = "message_stop"
            /\ sent[N - 1].type = "message_delta"
            /\ sent[N - 1].delta.stop_reason =
                 (CASE reason = "stop" -> "end_turn"
                    [] reason = "length" -> "max_tokens"
                    [] reason = "tool_calls" -> "tool_use"
                    [] OTHER -> "end_turn")
            /\ sent[N - 1].usage.output_tokens =
                 (IF LastChunk.usage = <<>> THEN 0 ELSE LastChunk.usage[1].completion_tokens)
            /\ \A j \in 1..(N - 2) : sent[j].type = "content_block_start" =>
                 \E k \in (j + 1)..(N - 2) :
                   sent[k].type = "content_block_stop" /\ sent[k].index = sent[j].index

\* C10 witness: a thinking block, a text block and a tool block were opened
\* over three chunks and the fourth, a finish chunk, ended the message.
C10_Witness ==
  /\ route = "messages"
  /\ Len(chunks) = 4 /\ IsFinishChunk(LastChunk)
  /\ Cardinality(Positions(sent, "content_block_start")) = 3
  /\ Cardinality(Positions(sent, "content_block_stop")) = 3
  /\ \E i \in 1..Len(sent) : IsBlockStart(sent[i], "thinking")
  /\ \E i \in 1..Len(sent) : IsBlockStart(sent[i], "tool_use")
  /\ sent[Len(sent)].type = "message_stop"

\* C11: Gemini translator. Whenever the last chunk carries no non-empty text
\* content and no finish reason (a chunk with zero choices, a chunk with only
\* tool-call fragments, an empty delta), translateChunkToGeminiResponse has
\* returned null: no response is written for it.
NoTextNoFinish(ch) ==
  \/ ~HasChoice(ch)
  \/ /\ ~Truthy(ch.choices[1].delta.content)
     /\ ~Truthy(ch.choices[1].finish_reason)

C11_NullWithoutTextOrFinish ==
  (route = "gemini" /\ chunks # <<>> /\ NoTextNoFinish(LastChunk)) => events = <<>>

\* A text chunk was answered, then a tool-call-only chunk registered a call
\* and was answered by nothing.
C11_Witness ==
  /\ route = "gemini"
  /\ Len(chunks) = 2
  /\ IsTextOnly(chunks[1])
  /\ HasChoice(LastChunk)
  /\ LastChunk.choices[1].delta.tool_calls # <<>>
  /\ NoTextNoFinish(LastChunk)
  /\ Len(gstate.accumulatedFunctionCalls) = 1
  /\ Len(sent) = 1
  /\ events = <<>>

\* C12: translating stream loops. After an upstream event whose payload fails
\* to parse has been taken, the loop is still streaming, so that the later
\* well-formed chunks are translated and written.
IsMalformed(rawEvent) ==
  /\ rawEvent.data # "[DONE]"
  /\ rawEvent.data # ""
  /\ JSONparse(rawEvent) = <<>>

C12_MalformedDropped ==
  (raw # <<>> /\ IsMalformed(raw[Len(raw)])) => phase = "streaming"

\* C13: all three translators. In every reachable state, a tool-call fragment
\* that carries only argument characters (no id, no name) for a slot that no
\* start fragment has registered is dropped by the translator's tool-call
\* handling: it adds no outbound event and leaves the whole stream state as
\* it was.
OrphanFrags == { ToolCallDelta(i, null, null, a) : i \in {0, 1}, a \in {"x", "1}"} }

C13_OrphanArgsDropped ==
  \A f \in OrphanFrags :
    /\ (route = "responses" /\ ~MapHas(state.accumulatedToolCalls, f.index)) =>
         LET c == [state |-> state, events |-> <<>>, rnd |-> rnd]
         IN handleToolCalls(c, <<f>>) = c
    /\ (route = "messages" /\ f.index \notin DOMAIN astate.toolCalls) =>
         LET c == [state |-> astate, events |-> <<>>]
         IN anthToolCalls(c, <<f>>) = c
    /\ (route = "gemini" /\ ~MapHas(gstate.accumulatedFunctionCalls, f.index)) =>
         accumulateToolCalls(<<f>>, gstate) = gstate

\* A text message is open and the last chunk was nothing but an argument
\* fragment for the unregistered slot 0: nothing was returned for it and the
\* message is still open.
C13_Witness ==
  /\ route = "responses"
  /\ Len(chunks) = 2
  /\ IsTextOnly(chunks[1])
  /\ HasChoice(LastChunk)
  /\ LastChunk.choices[1].delta.tool_calls = <<ArgsFrag(0)>>
  /\ ~Truthy(LastChunk.choices[1].finish_reason)
  /\ events = <<>>
  /\ state.messageStarted
  /\ state.accumulatedText = "A"
  /\ state.accumulatedToolCalls = <<>>
  /\ state.currentOutputIndex = 0

\* C14: every translator step for a chunk with zero choices returns no event
\* and changes no block: the Anthropic and Gemini stream states are left as
\* they were, and in the Response-API stream state only usage may differ,
\* being the chunk's usage snapshot when it carries one and the old usage
\* otherwise.
C14_ZeroChoices ==
  [][(chunks' # chunks /\ ~HasChoice(chunks'[Len(chunks')])) =>
       /\ events' = <<>>
       /\ sent' = sent
       /\ rnd' = rnd
       /\ astate' = astate
       /\ gstate' = gstate
       /\ state' = IF route = "responses" /\ chunks'[Len(chunks')].usage # <<>>
                   THEN [state EXCEPT !.usage = parseUsage(chunks'[Len(chunks')].usage[1])]
                   ELSE state]_vars

\* A text message is open when a chunk with zero choices and a usage snapshot
\* arrives: the usage is taken over, the message stays open, nothing is sent.
C14_Witness ==
  /\ route = "responses"
  /\ Len(chunks) = 2
  /\ IsTextOnly(chunks[1])
  /\ ~HasChoice(LastChunk)
  /\ LastChunk.usage # <<>>
  /\ events = <<>>
  /\ state.usage.input_tokens = 7
  /\ state.usage.total_tokens = 10
  /\ state.messageStarted
  /\ state.accumulatedText = "A"

\* C15: translating handlers. When the loop has been left ([DONE] or the end
\* of the upstream sequence) and no chunk carried a finish reason, nothing
\* written to the sink finalizes the stream: no terminal response.completed or
\* response.incomplete, no tool done event, no message_delta or message_stop,
\* no Gemini response with a finish reason; and the block that is open at
\* that moment has no close event in the sink.
NoFinishSeen == \A i \in 1..Len(chunks) : ~IsFinishChunk(chunks[i])

C15_NoFinalizationAtEnd ==
  (phase = "done" /\ NoFinishSeen) =>
    /\ pending = <<>>
    /\ route = "responses" =>
         /\ \A i \in 1..Len(sink) :
              /\ ~IsTerminal(sink[i])
              /\ ~IsItemDone(sink[i], "function_call")
              /\ sink[i].type # "response.function_call_arguments.done"
         /\ state.messageStarted =>
              \A i \in 1..Len(sink) :
                /\ sink[i].type \in {"response.output_text.done",
                                      "response.content_part.done"}
                     => sink[i].item_id # state.messageItemId
                /\ IsItemDone(sink[i], "message")
                     => sink[i].item.id # state.messageItemId
    /\ route = "messages" =>
         /\ \A i \in 1..Len(sink) : sink[i].type \notin {"message_delta", "message_stop"}
         /\ astate.contentBlockOpen =>
              \A i \in 1..Len(sink) :
                sink[i].type = "content_block_stop"
                  => sink[i].index # astate.contentBlockIndex
    /\ route = "gemini" =>
         \A i \in 1..Len(sink) : sink[i].candidates[1].finishReason = null

\* A text chunk opened a message, then [DONE] arrived: the loop is left with
\* the message open and its three opening events (after the two snapshots)
\* the last things written.
C15_Witness ==
  /\ route = "responses"
  /\ phase = "done"
  /\ Len(raw) = 2
  /\ raw[2] = DoneEvent
  /\ Len(chunks) = 1
  /\ IsTextOnly(chunks[1])
  /\ state.messageStarted
  /\ Len(sink) = 5
  /\ sink[5].type = "response.output_text.delta"

\* What the translator of route rt returns for the chunks cs, fed one by one
\* to a fresh stream state: the final states and the concatenation of the
\* returned event lists.
FreshRun ==
  [state |-> createStreamState(Payload, InitialChunk), rnd |-> 0,
   astate |-> AnthInitState, gstate |-> createGeminiStreamState("gpt-4"),
   sent |-> <<>>]

RECURSIVE Replay(_, _, _)
Replay(rt, cs, acc) ==
  IF cs = <<>> THEN acc
  ELSE LET r == TranslateOn(rt, Head(cs), acc.state, acc.rnd, acc.astate, acc.gstate)
       IN Replay(rt, Tail(cs),
                 [state |-> r.state, rnd |-> r.rnd, astate |-> r.astate,
                  gstate |-> r.gstate, sent |-> acc.sent \o r.events])

\* The two snapshots the responses handler writes before its first translator call.
IsSnapshot(e) ==
  route = "responses" /\ e.type \in {"response.created", "response.in_progress"}

WithoutSnapshots(log) ==
  LET Keep(e) == ~IsSnapshot(e) IN SelectSeq(log, Keep)

IsSuffix(p, l) ==
  Len(p) <= Len(l) /\ p = SubSeq(l, Len(l) - Len(p) + 1, Len(l))

\* C16: one connection. What has been written to the sink, followed by what
\* the current iteration still has to write, is (after the two snapshots of
\* the responses handler) exactly the concatenation, in chunk order, of the
\* lists the translator returns for the chunks taken so far; and the events
\* still to be written all belong to the last chunk taken (they are the tail
\* of its list), so no chunk is translated while an earlier one is unwritten.
C16_SinkIsConcatenation ==
  /\ WithoutSnapshots(sink \o pending) = Replay(route, chunks, FreshRun).sent
  /\ \A i \in 1..Len(sink \o pending) : IsSnapshot((sink \o pending)[i]) => i <= 2
  /\ held = <<>> => IsSuffix(pending, events)
  /\ held # <<>> => chunks = <<>> /\ Len(sink) + Len(pending) = 2

\* Two chunks have been taken; the first one's events and part of the second
\* one's are written, the rest of the second one's is still to be written.
C16_Witness ==
  /\ route = "responses"
  /\ phase = "streaming"
  /\ Len(chunks) = 2
  /\ IsTextOnly(chunks[1])
  /\ Len(events) >= 4
  /\ Len(pending) >= 2
  /\ Len(pending) < Len(events)
  /\ Len(sink) = 2 + Len(sent) - Len(pending)

\* C17: once the client has disconnected, no step of the stream loop takes a
\* further upstream event or changes the stream state of the connection.
C17_AbandonOnDisconnect ==
  [][aborted => /\ raw' = raw
                /\ chunks' = chunks
                /\ state' = state
                /\ astate' = astate
                /\ gstate' = gstate]_vars

\* C18: native Response-API passthrough. Every step that ends the handler
\* (return after [DONE] or the end of upstream, the re-thrown upstream error)
\* and the client abort leave keepAliveActive false and no timer set; and
\* from a state in which keepAliveActive is false no step initiates a
\* keep-alive write, sets a timer or makes keepAliveActive true again,
\* whichever of the timer callback, the write completion callbacks and the
\* teardown comes next.
C18_KeepAliveStopped ==
  [][/\ (npc' \in {"returned", "thrown"} \/ aborted')
          => (~keepAliveActive' /\ keepAliveTimer' = null)
     /\ ~keepAliveActive
          => (kaWrites' = kaWrites /\ ~keepAliveActive' /\ keepAliveTimer' = null)]_vars

\* The handler has returned while a keep-alive write was in flight: the
\* write's completion callback is still to run.
C18_Witness ==
  /\ npc = "returned"
  /\ kaWrite = "inflight"
  /\ kaWrites = 1
  /\ ~keepAliveActive
  /\ keepAliveTimer = null

\* An event, a list of events and a Response-API stream state with every
\* generated item id replaced by one fixed name.
ScrubItem(item) == [item EXCEPT !.id = "id"]

ScrubEvent(e) ==
  IF "item_id" \in DOMAIN e THEN [e EXCEPT !.item_id = "id"]
  ELSE IF "item" \in DOMAIN e THEN [e EXCEPT !.item = ScrubItem(@)]
  ELSE IF "response" \in DOMAIN e
  THEN [e EXCEPT !.response.output = [i \in DOMAIN @ |-> ScrubItem(@[i])]]
  ELSE e

ScrubLog(log) == [i \in DOMAIN log |-> ScrubEvent(log[i])]

ScrubState(st) ==
  [st EXCEPT
     !.messageItemId = IF @ = null THEN null ELSE "id",
     !.accumulatedToolCalls = [i \in DOMAIN @ |-> [@[i] EXCEPT !.value.id = "id"]],
     !.outputItems = [i \in DOMAIN @ |-> ScrubItem(@[i])]]

\* C19: two connections with interleaved chunks. At every moment each
\* connection's outbound event sequence and stream state are what the
\* translator of its route yields for that connection's own chunks fed alone
\* to a fresh state, up to the generated item ids.
C19_ConnectionScoped ==
  \A c \in Connections :
    LET alone == Replay(conns[c].route, conns[c].chunks, FreshRun)
    IN /\ ScrubLog(conns[c].sent) = ScrubLog(alone.sent)
       /\ ScrubState(conns[c].state) = ScrubState(alone.state)
       /\ conns[c].astate = alone.astate
       /\ conns[c].gstate = alone.gstate

\* Two Response-API connections, two chunks each, interleaved: connection 1
\* has a text message open whose id was drawn after connection 2 drew one
\* for its tool call.
C19_Witness ==
  /\ conns[1].route = "responses"
  /\ conns[2].route = "responses"
  /\ Len(conns[1].chunks) = 2
  /\ Len(conns[2].chunks) = 2
  /\ conns[1].state.messageStarted
  /\ conns[1].state.messageItemId = "msg_1"
  /\ Len(conns[2].state.accumulatedToolCalls) = 1
  /\ conns[2].state.accumulatedToolCalls[1].value.id = "fc_0"
  /\ ids = 2

\* C20 as stated: in every Response-API translator step neither index
\* decreases, and currentOutputIndex changes only in a step that closes a
\* block (one that returns an output_item.done event).
C20_IndexOnlyAtClose ==
  [][route = "responses" =>
       /\ state'.currentOutputIndex >= state.currentOutputIndex
       /\ state'.currentContentIndex >= state.currentContentIndex
       /\ state'.currentOutputIndex # state.currentOutputIndex =>
            \E i \in 1..Len(events') : events'[i].type = "response.output_item.done"]_vars

\* C20 amended: in every Response-API translator step currentContentIndex
\* keeps its value and currentOutputIndex grows by exactly the number of text
\* messages the step closes plus the number of tool calls the step opens: a
\* text block consumes its index when it is closed, a tool-call block when it
\* is opened; opening a text block and completing a tool call consume none.
C20_IndexPerBlock ==
  [][route = "responses" =>
       /\ state'.currentContentIndex = state.currentContentIndex
       /\ state'.currentOutputIndex =
            state.currentOutputIndex
            + Cardinality({i \in 1..Len(events') : IsItemDone(events'[i], "message")})
            + Cardinality({i \in 1..Len(events') : IsItemAdded(events'[i], "function_call")})]_vars

\* A text message was closed by the start of two tool calls, which are still
\* open: three indices are consumed with a single block closed.
C20_Witness ==
  /\ route = "responses"
  /\ state.currentOutputIndex = 3
  /\ state.currentContentIndex = 0
  /\ Len(state.accumulatedToolCalls) = 2
  /\ Cardinality({i \in 1..Len(sent) : IsItemDone(sent[i], "message")}) = 1
  /\ Cardinality({i \in 1..Len(sent) : IsItemDone(sent[i], "function_call")}) = 0
  /\ Cardinality({i \in 1..Len(sent) : IsItemAdded(sent[i], "function_call")}) = 2

\* The positions of log that announce a new output item / a new content block.
AddedAt(log) == Positions(log, "response.output_item.added")
StartedAt(log) == Positions(log, "content_block_start")

\* C21: output indices are never reused. Response-API translator: every
\* output_item.added carries an output_index different from (in fact greater
\* than) that of every earlier output_item.added, and two tool-call items
\* added with no other item added between them (consecutive new-call
\* fragments, in one chunk or in several) carry consecutive indices.
\* Anthropic translator: every content_block_start carries an index strictly
\* greater than that of every earlier content_block_start.
C21_IndicesNeverReused ==
  /\ route = "responses" =>
       \A i \in AddedAt(sent), j \in AddedAt(sent) :
         i < j =>
           /\ sent[i].output_index < sent[j].output_index
           /\ ( /\ sent[i].item.type = "function_call"
                /\ sent[j].item.type = "function_call"
                /\ ~\E k \in AddedAt(sent) : i < k /\ k < j )
                => sent[j].output_index = sent[i].output_index + 1
  /\ route = "messages" =>
       \A i \in StartedAt(sent), j \in StartedAt(sent) :
         i < j => sent[i].index < sent[j].index

\* A text message took index 0, one chunk then started two tool calls, which
\* took 1 and 2, and a later text message took 3.
C21_Witness ==
  /\ route = "responses"
  /\ Len(chunks) = 3
  /\ HasChoice(chunks[2])
  /\ Len(chunks[2].choices[1].delta.tool_calls) = 2
  /\ Cardinality(AddedAt(sent)) = 4
  /\ \E i, j, k, m \in AddedAt(sent) :
       /\ i < j /\ j < k /\ k < m
       /\ IsItemAdded(sent[i], "message") /\ sent[i].output_index = 0
       /\ IsItemAdded(sent[j], "function_call") /\ sent[j].output_index = 1
       /\ IsItemAdded(sent[k], "function_call") /\ sent[k].output_index = 2
       /\ IsItemAdded(sent[m], "message") /\ sent[m].output_index = 3

\* C22: Response-API translator. totalAccumulatedText is never reset: in
\* every reachable state it is the concatenation, in arrival order, of every
\* text fragment received so far, however many text blocks tool calls have
\* closed in between; and the output_text of a terminal snapshot is that
\* value, null when it is empty.
C22_TotalTextNeverReset ==
  route = "responses" =>
    /\ state.totalAccumulatedText = ConcatContent(chunks)
    /\ \A i \in 1..Len(events) : IsTerminal(events[i]) =>
         events[i].response.output_text =
           (IF ConcatContent(chunks) = "" THEN null ELSE ConcatContent(chunks))

\* Text "A", a tool call that closed it, text "B", finish: two message items
\* "A" and "B" were closed and the terminal snapshot's output_text is "AB".
C22_Witness ==
  /\ route = "responses"
  /\ Len(chunks) = 4
  /\ IsTextOnly(chunks[1]) /\ IsToolStartOnly(chunks[2]) /\ IsTextOnly(chunks[3])
  /\ IsPureFinish(chunks[4])
  /\ state.totalAccumulatedText = "AB"
  /\ state.accumulatedText = ""
  /\ Cardinality({i \in 1..Len(sent) : IsItemDone(sent[i], "message")}) = 2
  /\ IsTerminal(LastEvent)
  /\ LastEvent.response.output_text = "AB"

\* C23: Response-API translator. Every translator call for a chunk that
\* carries a usage snapshot leaves state.usage equal to exactly that snapshot,
\* whatever else the chunk carries (text, tool calls, a finish reason or no
\* choice at all); a call for a chunk without a snapshot leaves state.usage
\* as it was.
C23_UsageOverwritten ==
  [][(route = "responses" /\ chunks' # chunks) =>
       state'.usage = IF chunks'[Len(chunks')].usage # <<>>
                      THEN parseUsage(chunks'[Len(chunks')].usage[1])
                      ELSE state.usage]_vars

\* C24: one connection, any sequence of upstream chunks. At most one terminal
\* event (response.completed or response.incomplete; message_stop) has been
\* emitted, and it is the last event emitted: no block, delta or item event
\* follows it.
C24_SingleTerminal ==
  /\ route = "responses" =>
       /\ Cardinality({i \in 1..Len(sent) : IsTerminal(sent[i])}) <= 1
       /\ \A i \in 1..Len(sent) : IsTerminal(sent[i]) => i = Len(sent)
  /\ route = "messages" =>
       /\ Cardinality(Positions(sent, "message_stop")) <= 1
       /\ \A i \in Positions(sent, "message_stop") : i = Len(sent)

\* What a client has received for function_call item id: its
\* function_call_arguments.delta's, concatenated.
RECURSIVE ConcatArgDeltas(_, _)
ConcatArgDeltas(log, id) ==
  IF log = <<>> THEN ""
  ELSE (IF Head(log).type = "response.function_call_arguments.delta" /\ Head(log).item_id = id
        THEN Head(log).delta ELSE "") \o ConcatArgDeltas(Tail(log), id)

\* Every output_text.delta of log, concatenated.
RECURSIVE ConcatAllDeltas(_)
ConcatAllDeltas(log) ==
  IF log = <<>> THEN ""
  ELSE (IF Head(log).type = "response.output_text.delta" THEN Head(log).delta ELSE "")
       \o ConcatAllDeltas(Tail(log))

\* The items announced by the output_item.done events of log, in order.
DoneItems(log) ==
  LET IsDone(e) == e.type = "response.output_item.done"
      done == SelectSeq(log, IsDone)
  IN [i \in 1..Len(done) |-> done[i].item]

\* C25: Response-API translator, round trip. After a chunk sequence that
\* ends in a finish chunk, the terminal snapshot is what a client rebuilds
\* from the streamed events alone: output is the list of the items announced
\* by the output_item.done events; the text of every message item is the
\* concatenation of the output_text.delta events sent for its id; the
\* arguments of every function_call item are the concatenation of the
\* function_call_arguments.delta events sent for its id; output_text is the
\* concatenation of all text deltas (null standing for the empty text).
C25_RoundTrip ==
  (route = "responses" /\ chunks # <<>> /\ IsFinishChunk(LastChunk)) =>
    LET snapshot == sent[Len(sent)].response
    IN /\ IsTerminal(sent[Len(sent)])
       /\ snapshot.output = DoneItems(sent)
       /\ snapshot.output = state.outputItems
       /\ \A i \in 1..Len(snapshot.output) :
            LET item == snapshot.output[i]
            IN /\ item.type \in {"message", "function_call"}
               /\ item.type = "message" =>
                    item.content[1].text = ConcatDeltas(sent, item.id)
               /\ item.type = "function_call" =>
                    item.arguments = ConcatArgDeltas(sent, item.id)
       /\ snapshot.output_text =
            (IF ConcatAllDeltas(sent) = "" THEN null ELSE ConcatAllDeltas(sent))

\* The step of the Anthropic translator an event comes from: 1 reasoning,
\* 2 text, 3 tool calls, 4 finish; 0 for message_start and for
\* content_block_stop, which every step may emit for the block it closes.
StepOf(e) ==
  CASE e.type = "content_block_start" /\ e.content_block.type = "thinking" -> 1
    [] e.type = "content_block_delta"
         /\ e.delta.type \in {"thinking_delta", "signature_delta"} -> 1
    [] e.type = "content_block_start" /\ e.content_block.type = "text" -> 2
    [] e.type = "content_block_delta" /\ e.delta.type = "text_delta" -> 2
    [] e.type = "content_block_start" /\ e.content_block.type = "tool_use" -> 3
    [] e.type = "content_block_delta" /\ e.delta.type = "input_json_delta" -> 3
    [] e.type \in {"message_delta", "message_stop"} -> 4
    [] OTHER -> 0

\* C26: Anthropic translator. In the event list returned for one chunk every
\* thinking event precedes every text event, which precedes every tool_use
\* event, which precedes message_delta; and when a chunk with a text
\* fragment arrives while a thinking or a tool block is open, the list holds
\* the content_block_stop of that block, later the content_block_start of a
\* text block with a greater index immediately followed by the text_delta,
\* and no text_delta before that start.
C26_FragmentOrder ==
  [][(route = "messages" /\ chunks' # chunks) =>
       /\ \A i \in 1..Len(events'), j \in 1..Len(events') :
            (i < j /\ StepOf(events'[i]) # 0 /\ StepOf(events'[j]) # 0)
              => StepOf(events'[i]) <= StepOf(events'[j])
       /\ ( /\ astate.contentBlockOpen
            /\ astate.contentBlockType \in {"thinking", "tool"}
            /\ HasChoice(chunks'[Len(chunks')])
            /\ Truthy(chunks'[Len(chunks')].choices[1].delta.content) )
            => \E k \in 1..Len(events'), m \in 1..Len(events') :
                 /\ k < m /\ m < Len(events')
                 /\ events'[k].type = "content_block_stop"
                 /\ events'[k].index = astate.contentBlockIndex
                 /\ IsBlockStart(events'[m], "text")
                 /\ events'[m].index > astate.contentBlockIndex
                 /\ IsBlockDelta(events'[m + 1], "text_delta")
                 /\ events'[m + 1].index = events'[m].index
                 /\ \A n \in 1..m : ~IsBlockDelta(events'[n], "text_delta")]_vars

\* A tool block was open when a chunk with reasoning, text, a new tool call
\* and a finish reason arrived: the tool block was closed, then a thinking,
\* a text and a tool_use block were opened and closed in that order, then
\* message_delta and message_stop.
C26_Witness ==
  /\ route = "messages"
  /\ Len(chunks) = 2
  /\ IsToolStartOnly(chunks[1])
  /\ Len(events) = 12
  /\ events[1].type = "content_block_stop" /\ events[1].index = 0
  /\ IsBlockStart(events[2], "thinking") /\ events[2].index = 1
  /\ IsBlockDelta(events[3], "thinking_delta")
  /\ events[4].type = "content_block_stop"
  /\ IsBlockStart(events[5], "text") /\ events[5].index = 2
  /\ IsBlockDelta(events[6], "text_delta")
  /\ events[7].type = "content_block_stop"
  /\ IsBlockStart(events[8], "tool_use") /\ events[8].index = 3
  /\ IsBlockDelta(events[9], "input_json_delta")
  /\ events[10].type = "content_block_stop"
  /\ events[11].type = "message_delta"
  /\ events[12].type = "message_stop"

\* The finish-reason table of the Gemini endpoints.
GeminiReasonOf(r) ==
  CASE r = "stop" -> "STOP"
    [] r = "length" -> "MAX_TOKENS"
    [] r = "content_filter" -> "SAFETY"
    [] r = "tool_calls" -> "STOP"

\* C27: Gemini endpoints. stop maps to STOP, length to MAX_TOKENS,
\* content_filter to SAFETY and tool_calls to STOP, and the candidate of
\* every response produced for a finish carries the mapped finishReason: the
\* one response written for a streamed finish chunk (text response or
\* function-call response) and the body returned for a whole completion.
C27_FinishReasonMapping ==
  route = "gemini" =>
    /\ (chunks # <<>> /\ IsFinishChunk(LastChunk)) =>
         /\ Len(events) = 1
         /\ Len(events[1].candidates) = 1
         /\ events[1].candidates[1].finishReason =
              GeminiReasonOf(LastChunk.choices[1].finish_reason)
    /\ completion # <<>> =>
         /\ Len(reply) = 1
         /\ Len(reply[1].candidates) = 1
         /\ reply[1].candidates[1].finishReason =
              GeminiReasonOf(completion[1].choices[1].finish_reason)

\* A streamed tool call was accumulated and the finish chunk with reason
\* content_filter produced a function-call response marked SAFETY.
C27_Witness ==
  /\ route = "gemini"
  /\ Len(chunks) = 2
  /\ IsPureFinish(LastChunk)
  /\ LastChunk.choices[1].finish_reason = "content_filter"
  /\ Len(gstate.accumulatedFunctionCalls) = 1
  /\ Len(events) = 1
  /\ events[1].candidates[1].finishReason = "SAFETY"
  /\ Len(events[1].candidates[1].content[1].parts) = 1

\* Two adjacent messages that the merge must not leave apart.
Mergeable(a, b) ==
  /\ a.role = b.role
  /\ a.role # "tool"
  /\ a.tool_calls = <<>>
  /\ b.tool_calls = <<>>

\* The runs of a list of string messages joined from the right: a message is
\* put in front of the joined rest, with a blank line between the two strings.
RECURSIVE JoinRuns(_)
JoinRuns(messages) ==
  IF Len(messages) <= 1 THEN messages
  ELSE LET first == Head(messages)
           rest == JoinRuns(Tail(messages))
       IN IF Mergeable(first, rest[1])
          THEN <<[first EXCEPT !.content =
                    Str(first.content.str \o "\n\n" \o rest[1].content.str)]>>
               \o Tail(rest)
          ELSE <<first>> \o rest

AllStrings(messages) ==
  \A i \in 1..Len(messages) :
    IsStr(messages[i].content) \/ messages[i].content = NoContent

\* C28: in the message list translateToOpenAI returns for a Gemini request no
\* two adjacent messages have the same role unless the role is tool or one of
\* them carries tool_calls; and when the translated contents are strings the
\* list is the one obtained by joining every run of same-role messages, in
\* order, with a blank line between the strings.
C28_MergedAdjacent ==
  (route = "gemini" /\ upstream # <<>>) =>
    LET messages == upstream[1].messages
        unmerged == unmergedMessages(request[1].contents,
                                     request[1].systemInstruction)
    IN /\ \A i \in 1..(Len(messages) - 1) :
            messages[i].role = messages[i + 1].role =>
              \/ messages[i].role = "tool"
              \/ messages[i].tool_calls # <<>>
              \/ messages[i + 1].tool_calls # <<>>
       /\ AllStrings(unmerged) => messages = JoinRuns(unmerged)

\* Three user entries in a row arrive upstream as one message.
C28_Witness ==
  /\ route = "gemini"
  /\ upstream # <<>>
  /\ request[1].contents = <<GeminiContent("user", <<TextPart("Part 1")>>),
                             GeminiContent("user", <<TextPart("Part 2")>>),
                             GeminiContent("user", <<TextPart("Part 1")>>)>>
  /\ request[1].systemInstruction = <<>>
  /\ upstream[1].messages =
       <<Message("user", Str("Part 1\n\nPart 2\n\nPart 1"), <<>>, null)>>

\* String.prototype.toLowerCase on the schema type names of the requests.
toLowerCase(type) ==
  CASE type = "OBJECT" -> "object"
    [] type = "STRING" -> "string"
    [] OTHER -> type

\* Every type name of a schema, at every nesting level, is in lowercase.
RECURSIVE LowercaseTypes(_)
LowercaseTypes(schema) ==
  /\ schema.type = toLowerCase(schema.type)
  /\ \A i \in 1..Len(schema.properties) :
       LowercaseTypes(schema.properties[i].value)

\* C29: the parameters schema of every tool that translateToOpenAI sends
\* upstream for a Gemini request has its type names in lowercase at every
\* nesting level.
C29_LowercaseTypes ==
  (route = "gemini" /\ upstream # <<>>) =>
    \A i \in 1..Len(upstream[1].tools) :
      LowercaseTypes(upstream[1].tools[i].function.parameters)

\* C30: when normalizeAnthropicThinking is given a payload with thinking
\* enabled and returns one with thinking still enabled, the returned
\* budget_tokens is at least 1024 and below max_tokens.
C30_BudgetInRange ==
  (/\ route = "messages"
   /\ upstream # <<>>
   /\ request[1].thinking # <<>>
   /\ request[1].thinking[1].type = "enabled") =>
    LET returned == upstream[1].sanitizedPayload
    IN returned.thinking # <<>> =>
         /\ returned.thinking[1].type = "enabled"
         /\ minBudget <= returned.thinking[1].budget_tokens
         /\ returned.thinking[1].budget_tokens < returned.max_tokens

\* The model the responses handler found for the request, if any.
FoundModel == request[1].found

SupportedEndpoints == FoundModel[1].supported_endpoints

C32_OneKeepAlive ==
  [][/\ ~(keepAliveTimer' = "pending" /\ kaWrite' = "inflight")
     /\ kaWrites' # kaWrites =>
          /\ kaWrites' = kaWrites + 1
          /\ kaWrite = "none" /\ kaWrite' = "inflight"
          /\ keepAliveTimer = "pending" /\ keepAliveTimer' # "pending"
     /\ (keepAliveTimer' = "pending" /\ keepAliveTimer # "pending") =>
          \/ npc = "start" /\ kaWrites = 0
          \/ kaWrite = "inflight" /\ kaWrite' = "none"
     /\ KeepAliveFailed => (~keepAliveActive' /\ keepAliveTimer' = null)
     /\ ~keepAliveActive =>
          (~keepAliveActive' /\ kaWrites' = kaWrites /\ keepAliveTimer' # "pending")]_vars

\* The second timer is pending: it was set when the first write completed.
C32_Witness ==
  /\ npc = "loop"
  /\ keepAliveActive
  /\ kaWrites = 1
  /\ kaWrite = "none"
  /\ keepAliveTimer = "pending"

\* The chunk sequence ends with its only finish chunk.
EndsWithOnlyFinish ==
  /\ chunks # <<>>
  /\ IsFinishChunk(LastChunk)
  /\ \A i \in 1..(Len(chunks) - 1) : ~IsFinishChunk(chunks[i])

\* C33: Response-API translator. After a chunk sequence that ends with its
\* only finish chunk, every item of the terminal snapshot's output sits at
\* the list position equal to the output_index of its output_item.added and
\* output_item.done events.
C33_OutputInIndexOrder ==
  (route = "responses" /\ EndsWithOnlyFinish) =>
    LET output == sent[Len(sent)].response.output
    IN \A p \in 1..Len(output) :
         \A i \in 1..Len(sent) :
           ( /\ sent[i].type \in {"response.output_item.added",
                                  "response.output_item.done"}
             /\ sent[i].item.id = output[p].id )
             => sent[i].output_index = p - 1

\* The positions of log holding an output_item.done for the item added at i.
DoneOf(log, i) ==
  {j \in Positions(log, "response.output_item.done") :
     /\ j > i
     /\ log[j].item.id = log[i].item.id
     /\ log[j].output_index = log[i].output_index}

\* The item a delta at position i of log refers to has been added before i
\* and is not done before i.
DeltaOnOpenItem(log, i) ==
  /\ \E a \in AddedAt(log) : a < i /\ log[a].item.id = log[i].item_id
  /\ ~\E d \in Positions(log, "response.output_item.done") :
        d < i /\ log[d].item.id = log[i].item_id

\* C34: Response-API translator, item lifecycle. After a chunk sequence that
\* ends with its only finish chunk, every output_item.added is followed,
\* before the terminal event, by exactly one output_item.done with the same
\* item id and output_index; every output_text.delta and
\* function_call_arguments.delta refers to an item added and not yet done;
\* and no item id appears twice in outputItems.
C34_ItemLifecycle ==
  (route = "responses" /\ EndsWithOnlyFinish) =>
    /\ IsTerminal(sent[Len(sent)])
    /\ \A i \in AddedAt(sent) :
         /\ Cardinality(DoneOf(sent, i)) = 1
         /\ \A j \in DoneOf(sent, i) : j < Len(sent)
    /\ \A i \in 1..Len(sent) :
         sent[i].type \in {"response.output_text.delta",
                           "response.function_call_arguments.delta"}
           => DeltaOnOpenItem(sent, i)
    /\ \A p \in 1..Len(state.outputItems), q \in 1..Len(state.outputItems) :
         state.outputItems[p].id = state.outputItems[q].id => p = q

\* C35: Anthropic translator. Every content_block_delta is addressed to a
\* block that has been started and not yet stopped: no content_block_stop
\* with the delta's index precedes the delta.
C35_DeltaOnOpenBlock ==
  route = "messages" =>
    \A i \in Positions(sent, "content_block_delta") :
      /\ \E j \in StartedAt(sent) : j < i /\ sent[j].index = sent[i].index
      /\ ~\E j \in Positions(sent, "content_block_stop") :
            j < i /\ sent[j].index = sent[i].index

StoppedAt(log) == Positions(log, "content_block_stop")

\* The number of blocks open after the first n events of log.
OpenBlocks(log, n) ==
  Cardinality({i \in StartedAt(log) : i <= n})
    - Cardinality({i \in StoppedAt(log) : i <= n})

\* C36: Anthropic translator, in every reachable state: at most one content
\* block is open at any point of the event list; contentBlockOpen is true
\* exactly when contentBlockType is thinking, text or tool (and the type is
\* null otherwise), and exactly when the event list has a started block that
\* is not stopped; the content_block_start indices are 0, 1, 2, ... in order;
\* contentBlockIndex is the number of content_block_stop events emitted; and
\* every content_block_stop carries the index of the latest
\* content_block_start, which no other stop has closed before.
C36_BlockInvariants ==
  route = "messages" =>
    /\ \A n \in 0..Len(sent) : OpenBlocks(sent, n) \in {0, 1}
    /\ astate.contentBlockOpen <=> astate.contentBlockType \in {"thinking", "text", "tool"}
    /\ ~astate.contentBlockOpen => astate.contentBlockType = null
    /\ astate.contentBlockOpen <=> OpenBlocks(sent, Len(sent)) = 1
    /\ \A i \in StartedAt(sent) :
         sent[i].index = Cardinality({j \in StartedAt(sent) : j < i})
    /\ astate.contentBlockIndex = Cardinality(StoppedAt(sent))
    /\ \A j \in StoppedAt(sent) :
         \E i \in StartedAt(sent) :
           /\ i < j
           /\ sent[i].index = sent[j].index
           /\ ~\E k \in StartedAt(sent) \cup StoppedAt(sent) : i < k /\ k < j

\* A thinking and a text block have been stopped and a tool block is open.
C36_Witness ==
  /\ route = "messages"
  /\ Cardinality(StartedAt(sent)) = 3
  /\ astate.contentBlockIndex = 2
  /\ astate.contentBlockOpen
  /\ astate.contentBlockType = "tool"

\* The non-empty text fragments of the chunks with a choice, in arrival order.
RECURSIVE TextsReceived(_)
TextsReceived(cs) ==
  IF cs = <<>> THEN <<>>
  ELSE (IF HasChoice(Head(cs)) /\ Truthy(Head(cs).choices[1].delta.content)
        THEN <<Head(cs).choices[1].delta.content>> ELSE <<>>)
       \o TextsReceived(Tail(cs))

\* The parts of a Gemini response.
PartsOf(response) ==
  IF response.candidates[1].content = <<>> THEN <<>>
  ELSE response.candidates[1].content[1].parts

\* The texts of the text parts of the responses of log, in order.
RECURSIVE TextsSent(_)
TextsSent(log) ==
  IF log = <<>> THEN <<>>
  ELSE LET textParts == SelectSeq(PartsOf(Head(log)), isTextPart)
       IN [i \in 1..Len(textParts) |-> textParts[i].text] \o TextsSent(Tail(log))

\* C37: Gemini translator. The text parts of the responses sent are, one for
\* one and in order, the non-empty text fragments of the chunks received
\* with a choice.
C37_NoTextLost ==
  route = "gemini" => TextsSent(sent) = TextsReceived(chunks)

\* C38: Response-API translator. Every terminal event is self-consistent:
\* its type is response.incomplete exactly when its snapshot's status is
\* incomplete and exactly when the snapshot's incomplete_details is set, and
\* its type is response.completed exactly when the status is completed.
C38_TerminalConsistent ==
  route = "responses" =>
    \A i \in 1..Len(sent) :
      IsTerminal(sent[i]) =>
        /\ sent[i].type = "response.incomplete"
             <=> sent[i].response.status = "incomplete"
        /\ sent[i].type = "response.incomplete"
             <=> sent[i].response.incomplete_details # <<>>
        /\ sent[i].type = "response.completed"
             <=> sent[i].response.status = "completed"

\* C39: Response-API handler. response.created is the first event written
\* and response.in_progress the second, and neither type is written at any
\* other position; both carry a snapshot with status in_progress and an
\* empty output list; once the first chunk has been translated both have
\* been written; and as long as upstream has delivered only empty events and
\* [DONE], nothing is written or waiting to be written.
C39_PrimingEvents ==
  route = "responses" =>
    /\ \A i \in 1..Len(sink) :
         /\ sink[i].type = "response.created" <=> i = 1
         /\ sink[i].type = "response.in_progress" <=> i = 2
         /\ i <= 2 =>
              /\ sink[i].response.status = "in_progress"
              /\ sink[i].response.output = <<>>
    /\ ~firstChunk => Len(sink) >= 2
    /\ chunks # <<>> => Len(sink) >= 2
    /\ (\A i \in 1..Len(raw) : raw[i] \in {BlankEvent, DoneEvent}) =>
         (sink = <<>> /\ pending = <<>>)

\* After an empty event and two chunks, the two snapshots are followed by
\* translated events.
C39_Witness ==
  /\ route = "responses"
  /\ Len(raw) = 3
  /\ raw[1] = BlankEvent
  /\ Len(chunks) = 2
  /\ Len(sink) > 2
  /\ sink[1].type = "response.created"
  /\ sink[3].type = "response.output_item.added"

\* The tool-call fragments of the chunks, in arrival order.
RECURSIVE FragmentsReceived(_)
FragmentsReceived(cs) ==
  IF cs = <<>> THEN <<>>
  ELSE (IF HasChoice(Head(cs)) THEN Head(cs).choices[1].delta.tool_calls ELSE <<>>)
       \o FragmentsReceived(Tail(cs))

IsStartFragment(f) == Truthy(f.id) /\ Truthy(f.function.name)

\* The slots of the start fragments of frags, each once, in the order of
\* their first start fragment.
RECURSIVE SlotsInOrder(_, _)
SlotsInOrder(frags, seen) ==
  IF frags = <<>> THEN <<>>
  ELSE LET f == Head(frags)
       IN IF IsStartFragment(f) /\ f.index \notin seen
          THEN <<f.index>> \o SlotsInOrder(Tail(frags), seen \cup {f.index})
          ELSE SlotsInOrder(Tail(frags), seen)

\* The position of the latest start fragment of slot in frags.
LatestStart(frags, slot) ==
  CHOOSE p \in 1..Len(frags) :
    /\ IsStartFragment(frags[p]) /\ frags[p].index = slot
    /\ \A q \in (p + 1)..Len(frags) :
         ~(IsStartFragment(frags[q]) /\ frags[q].index = slot)

\* The arguments of the fragments of slot at positions from..Len(frags),
\* concatenated.
RECURSIVE ArgsFrom(_, _, _)
ArgsFrom(frags, slot, from) ==
  IF from > Len(frags) THEN ""
  ELSE (IF frags[from].index = slot /\ Truthy(frags[from].function.arguments)
        THEN frags[from].function.arguments ELSE "")
       \o ArgsFrom(frags, slot, from + 1)

\* The functionCall part expected for slot.
ExpectedCall(frags, slot) ==
  LET p == LatestStart(frags, slot)
  IN [functionCall |->
        [id |-> frags[p].id,
         name |-> frags[p].function.name,
         args |-> parseToolCallArgs(ArgsFrom(frags, slot, p))]]

\* C40: Gemini translator. A response written for a chunk without finish
\* reason carries no functionCall part. The response written for a finish
\* chunk carries one functionCall part per slot for which a start fragment
\* has arrived, in the order of the slots' first start fragments, each with
\* the id and name of the slot's start fragment (the latest one, when a slot
\* is started again) and with args parsed from that fragment's arguments
\* followed by all later argument fragments of the slot, {} when the string
\* is not valid JSON.
C40_FunctionCallsAtFinish ==
  route = "gemini" =>
    /\ \A i \in 1..Len(sent) :
         sent[i].candidates[1].finishReason = null =>
           SelectSeq(PartsOf(sent[i]), isFunctionCallPart) = <<>>
    /\ (chunks # <<>> /\ IsFinishChunk(LastChunk)) =>
         LET frags == FragmentsReceived(chunks)
             slots == SlotsInOrder(frags, {})
         IN /\ Len(events) = 1
            /\ SelectSeq(PartsOf(events[1]), isFunctionCallPart) =
                 [k \in 1..Len(slots) |-> ExpectedCall(frags, slots[k])]

\* Slot 1 was started before slot 0, whose arguments came in two fragments.
C40_Witness ==
  /\ route = "gemini"
  /\ Len(chunks) = 4
  /\ IsFinishChunk(LastChunk)
  /\ Len(events) = 1
  /\ PartsOf(events[1]) =
       <<[functionCall |-> [id |-> "call_1", name |-> "get_weather", args |-> <<>>]],
         [functionCall |-> [id |-> "call_0", name |-> "get_weather",
                            args |-> <<[key |-> "a", value |-> 1]>>]]>>
====
